---- MODULE Spec2Model ----
(***************************************************************************)
(* Model of the lesson-package synthesis pipeline of                       *)
(* tools/lesson_generator.py: topic segmentation, example / skeleton /     *)
(* test synthesis and the on-disk package built by create_lesson_package;  *)
(* and of the calculator: its operations and the main of its command line. *)
(*                                                                         *)
(* Python str values are TLA+ strings; a character is a string of length   *)
(* one (SubSeq(s, i, i)).  Nine specifications share the module:           *)
(*   Spec      - create_lesson_package against a file system, statement    *)
(*               by statement;                                             *)
(*   SpecFail  - the same, with the file system failing at any step;       *)
(*   SpecSeg   - the scan loop of _split_into_topics, line by line;        *)
(*   SpecTitle - the per-topic body of create_lesson_package (slug,        *)
(*               example, skeleton, test) for one title;                   *)
(*   SpecSkel  - the loop of _generate_student_skeleton, line by line;     *)
(*   SpecLesson - generate_lesson: the remote path and _local_generate;    *)
(*   SpecTest  - _generate_test_for_example on the source of any file;     *)
(*   SpecCli   - main of the calculator on an argv;                        *)
(*   SpecDivide - divide on operands of every type.                        *)
(***************************************************************************)
EXTENDS Integers, Sequences, FiniteSets, TLC

VARIABLES
    fs,              \* the destination directory: path -> node
    pc,              \* position inside create_lesson_package
    lesson_markdown, \* argument of the running call
    name_arg,        \* argument lesson_name: <<>> is None, <<s>> is the str s
    lesson_name,     \* the resolved lesson name (line 209)
    topics,          \* local topics (line 226)
    i,               \* loop index of line 228
    created,         \* local created (line 227)
    mk,              \* loop index of line 270
    calls,           \* completed calls
    prev,            \* <<>> or <<[text, name, base, snap]>>: the last completed call
    seg,             \* state of one run of _split_into_topics
    tl,              \* state of one pass through the per-topic body
    sk,              \* state of one run of _generate_student_skeleton
    err,             \* the kinds of OSError raised so far in the running call
    entry,           \* fs as it was when the running call was made
    lg,              \* state of one call of generate_lesson
    ts,              \* state of one call of _generate_test_for_example
    cli,             \* state of one run of the calculator's main
    dv               \* state of one call of divide

pkgvars == <<fs, pc, lesson_markdown, name_arg, lesson_name, topics, i, created, mk, calls, prev,
             err, entry>>
restvars == <<lg, ts, cli, dv>>
vars == <<fs, pc, lesson_markdown, name_arg, lesson_name, topics, i, created, mk, calls, prev,
         seg, tl, sk, err, entry, lg, ts, cli, dv>>

---------------------------------------------------------------------------
(* Bounds of the model.                                                    *)

MaxCalls == 2
MaxLines == 3
MaxFrags == 2
MaxSrcLines == 3
MaxTplLines == 2
MaxNoteLines == 3
MaxArgs == 3
MaxTestSrcLines == 2

---------------------------------------------------------------------------
(* Python str primitives.                                                  *)

Min(a, b) == IF a < b THEN a ELSE b

Ch(s, k) == SubSeq(s, k, k)

CharSet(s) == {Ch(s, k) : k \in 1..Len(s)}

UpperChars == "ABCDEFGHIJKLMNOPQRSTUVWXYZ"
LowerChars == "abcdefghijklmnopqrstuvwxyz"
DigitChars == "0123456789"

UpperSet == CharSet(UpperChars)
LowerSet == CharSet(LowerChars)
DigitSet == CharSet(DigitChars)

\* str.isspace for the characters a TLA+ string can hold
SpaceSet == {" ", "\t", "\n", "\r", "\f"}

\* str.splitlines boundaries among those characters
BreakSet == {"\n", "\r", "\f"}

\* the class [0-9a-zA-Z_]
WordSet == UpperSet \cup LowerSet \cup DigitSet \cup {"_"}

MinOf(S) == CHOOSE x \in S : \A y \in S : x <= y

RECURSIVE ConcatRange(_, _, _)
\* pieces[lo] \o ... \o pieces[hi], by halves
ConcatRange(pieces, lo, hi) ==
    IF lo > hi THEN ""
    ELSE IF lo = hi THEN pieces[lo]
    ELSE LET mid == (lo + hi) \div 2
         IN  ConcatRange(pieces, lo, mid) \o ConcatRange(pieces, mid + 1, hi)

\* "".join(pieces)
ConcatAll(pieces) == ConcatRange(pieces, 1, Len(pieces))

\* least k >= from with s[k..] starting with pat, or 0
Find(s, pat, from) ==
    LET at == {k \in from..(Len(s) + 1 - Len(pat)) : SubSeq(s, k, k + Len(pat) - 1) = pat}
    IN  IF at = {} THEN 0 ELSE MinOf(at)

\* pat in s
Contains(s, pat) == Find(s, pat, 1) > 0

StartsWith(s, pat) == Len(pat) <= Len(s) /\ SubSeq(s, 1, Len(pat)) = pat

\* s[:n]
Prefix(s, n) == SubSeq(s, 1, Min(n, Len(s)))

\* s[k:] with k counted from 1
Suffix(s, k) == SubSeq(s, k, Len(s))

RECURSIVE SpanLen(_, _, _)
\* length of the longest run of characters of set starting at position k
SpanLen(s, set, k) ==
    IF k > Len(s) \/ Ch(s, k) \notin set THEN 0 ELSE 1 + SpanLen(s, set, k + 1)

RECURSIVE SpanLenBack(_, _, _)
SpanLenBack(s, set, k) ==
    IF k < 1 \/ Ch(s, k) \notin set THEN 0 ELSE 1 + SpanLenBack(s, set, k - 1)

\* s.strip(chars)
StripChars(s, set) ==
    LET a == SpanLen(s, set, 1)
        b == SpanLenBack(s, set, Len(s))
    IN  IF a = Len(s) THEN "" ELSE SubSeq(s, a + 1, Len(s) - b)

\* s.strip()
Strip(s) == StripChars(s, SpaceSet)

\* s.lstrip(chars)
LStripChars(s, set) == Suffix(s, SpanLen(s, set, 1) + 1)

LowerOf(c) == IF c \in UpperSet THEN Ch(LowerChars, Find(UpperChars, c, 1)) ELSE c

\* s.lower()
Lower(s) == ConcatAll([k \in 1..Len(s) |-> LowerOf(Ch(s, k))])

RECURSIVE SplitFrom(_, _)
\* the lines of s[k:]: up to the next line boundary ("\r\n" is one), then the rest
SplitFrom(s, k) ==
    IF k > Len(s) THEN <<>>
    ELSE LET brk == {j \in k..Len(s) : Ch(s, j) \in BreakSet}
         IN  IF brk = {} THEN <<Suffix(s, k)>>
             ELSE LET b == MinOf(brk)
                      w == IF Ch(s, b) = "\r" /\ b < Len(s) /\ Ch(s, b + 1) = "\n" THEN 2 ELSE 1
                  IN  <<SubSeq(s, k, b - 1)>> \o SplitFrom(s, b + w)

\* s.splitlines()
SplitLines(s) == SplitFrom(s, 1)

RECURSIVE JoinFrom(_, _, _)
JoinFrom(sep, xs, k) ==
    IF k > Len(xs) THEN ""
    ELSE IF k = Len(xs) THEN xs[k]
    ELSE xs[k] \o sep \o JoinFrom(sep, xs, k + 1)

\* sep.join(xs)
Join(sep, xs) == JoinFrom(sep, xs, 1)

\* re.sub(r"[^set]+", "_", s): every maximal run of characters outside set becomes
\* one "_" (written at the first character of the run)
SubRuns(s, set) ==
    ConcatAll([k \in 1..Len(s) |->
                 IF Ch(s, k) \in set THEN Ch(s, k)
                 ELSE IF k = 1 \/ Ch(s, k - 1) \in set THEN "_" ELSE ""])

\* re.sub(r"[^0-9a-zA-Z_]+", "_", s)
SubNonWordRuns(s) == SubRuns(s, WordSet)

\* re.sub(r"[^set]", "_", s): every character outside set becomes "_"
SubEach(s, set) ==
    ConcatAll([k \in 1..Len(s) |-> IF Ch(s, k) \in set THEN Ch(s, k) ELSE "_"])

\* re.sub(r"_+", "_", s)
CollapseUnderscores(s) ==
    ConcatAll([k \in 1..Len(s) |->
                 IF Ch(s, k) = "_" /\ k > 1 /\ Ch(s, k - 1) = "_" THEN "" ELSE Ch(s, k)])

RECURSIVE IntStr(_)
\* str(n) for a natural number n, as in an f-string
IntStr(n) == IF n < 10 THEN Ch(DigitChars, n + 1)
             ELSE IntStr(n \div 10) \o Ch(DigitChars, (n % 10) + 1)

\* truthiness of an Optional[str] held as <<>> or <<s>>
Truthy(opt) == opt # <<>> /\ opt[1] # ""

---------------------------------------------------------------------------
(* _split_into_topics (lines 80-123).  The scan state is the three locals  *)
(* topics, cur_title, cur_lines; from_heading records, for each topic      *)
(* appended, whether it was flushed with an open title (auxiliary, read    *)
(* only by properties).                                                    *)

InitScan == [topics |-> <<>>, cur_title |-> <<>>, cur_lines |-> <<>>, from_heading |-> <<>>]

\* length of the match of ^#{1,6}\s+ at the start of s, 0 when there is none
HeadingMatchLen(s) ==
    LET n == SpanLen(s, {"#"}, 1)
        w == SpanLen(s, SpaceSet, n + 1)
    IN  IF n >= 1 /\ n <= 6 /\ w >= 1 THEN n + w ELSE 0

\* re.match(r"^(-|\*|\d+\.)\s+", s)
ListMatch(s) ==
    LET d == SpanLen(s, DigitSet, 1)
    IN  \/ Len(s) >= 2 /\ Ch(s, 1) \in {"-", "*"} /\ Ch(s, 2) \in SpaceSet
        \/ d >= 1 /\ Len(s) >= d + 2 /\ Ch(s, d + 1) = "." /\ Ch(s, d + 2) \in SpaceSet

\* fault variant of FlushedTopic: the body lines are joined without a separator
FlushedTopicUnseparated(st) ==
    LET title == IF Truthy(st.cur_title) THEN st.cur_title[1]
                 ELSE IF st.cur_lines # <<>> THEN st.cur_lines[1] ELSE "Topic"
    IN  [title |-> Strip(title), summary |-> Strip(Join("", st.cur_lines))]

\* the topic flush() builds from the open title and body (lines 92-94)
FlushedTopic(st) ==
    LET title == IF Truthy(st.cur_title) THEN st.cur_title[1]
                 ELSE IF st.cur_lines # <<>> THEN st.cur_lines[1] ELSE "Topic"
    IN  [title |-> Strip(title), summary |-> Strip(Join("\n", st.cur_lines))]

\* fault variant of flush: a titled topic without body lines is not appended
flushDropsBare(st) ==
    IF st.cur_lines # <<>>
    THEN [st EXCEPT !.topics = Append(@, FlushedTopic(st)),
                    !.from_heading = Append(@, Truthy(st.cur_title))]
    ELSE st

\* flush() (lines 90-94)
flush(st) ==
    IF Truthy(st.cur_title) \/ st.cur_lines # <<>>
    THEN [st EXCEPT !.topics = Append(@, FlushedTopic(st)),
                    !.from_heading = Append(@, Truthy(st.cur_title))]
    ELSE st

\* fault variant of LineKind: a list line opens a topic under an open title too
LineKindTitleBlind(st, ln) ==
    LET stripped == Strip(ln)
    IN  IF stripped = "" THEN "blank"
        ELSE IF HeadingMatchLen(stripped) > 0 THEN "heading"
        ELSE IF ListMatch(stripped) THEN "list"
        ELSE "body"

\* which branch of the loop body (lines 97-114) the line ln takes
LineKind(st, ln) ==
    LET stripped == Strip(ln)
    IN  IF stripped = "" THEN "blank"
        ELSE IF HeadingMatchLen(stripped) > 0 THEN "heading"
        ELSE IF ListMatch(stripped) /\ ~Truthy(st.cur_title) THEN "list"
        ELSE "body"

\* fault variant of ScanLine: a heading replaces the open topic without flushing it
ScanLineNoFlush(st, ln) ==
    LET stripped == Strip(ln)
        kind == LineKind(st, ln)
    IN  CASE kind = "blank" ->
               IF st.cur_lines # <<>> THEN [st EXCEPT !.cur_lines = Append(@, ln)] ELSE st
          [] kind = "heading" ->
               [st EXCEPT !.cur_title = <<Suffix(stripped, HeadingMatchLen(stripped) + 1)>>,
                          !.cur_lines = <<>>]
          [] kind = "list" ->
               [(IF st.cur_lines # <<>> THEN flush(st) ELSE st)
                   EXCEPT !.cur_title = <<>>,
                          !.cur_lines = <<stripped>>]
          [] OTHER -> [st EXCEPT !.cur_lines = Append(@, ln)]

\* one iteration of the loop of line 96
ScanLine(st, ln) ==
    LET stripped == Strip(ln)
        kind == LineKind(st, ln)
    IN  CASE kind = "blank" ->
               IF st.cur_lines # <<>> THEN [st EXCEPT !.cur_lines = Append(@, ln)] ELSE st
          [] kind = "heading" ->
               [(IF Truthy(st.cur_title) \/ st.cur_lines # <<>> THEN flush(st) ELSE st)
                   EXCEPT !.cur_title = <<Suffix(stripped, HeadingMatchLen(stripped) + 1)>>,
                          !.cur_lines = <<>>]
          [] kind = "list" ->
               [(IF st.cur_lines # <<>> THEN flush(st) ELSE st)
                   EXCEPT !.cur_title = <<>>,
                          !.cur_lines = <<stripped>>]
          [] OTHER -> [st EXCEPT !.cur_lines = Append(@, ln)]

\* fault variant of fallback: no fallback topic
fallbackNone(st, text) == st

\* lines 117-118
fallback(st, text) ==
    IF st.topics = <<>>
    THEN [st EXCEPT !.topics = <<[title |-> "Lesson", summary |-> text]>>,
                    !.from_heading = <<FALSE>>]
    ELSE st

\* fault variant of NormalizeTopic: the body is left as it is
NormalizeTopicKeepsBody(t) ==
    [title |-> IF t.title # "" THEN t.title ELSE "Topic", summary |-> t.summary]

\* lines 120-122
NormalizeTopic(t) ==
    [title |-> IF t.title # "" THEN t.title ELSE "Topic", summary |-> Strip(t.summary)]

\* lines 116-123: the last flush, the fallback topic and the normalisation
FinishScan(st, text) ==
    LET f == fallback(flush(st), text)
    IN  [f EXCEPT !.topics = [k \in 1..Len(f.topics) |-> NormalizeTopic(f.topics[k])]]

RECURSIVE ScanFrom(_, _, _)
ScanFrom(st, lines, k) ==
    IF k > Len(lines) THEN st ELSE ScanFrom(ScanLine(st, lines[k]), lines, k + 1)

\* _split_into_topics(text)
split_into_topics(text) == FinishScan(ScanFrom(InitScan, SplitLines(text), 1), text).topics

---------------------------------------------------------------------------
(* _generate_example_code (lines 126-141).                                 *)

\* line 128
ExampleTitle(topic) == Lower(IF topic.title # "" THEN topic.title ELSE "topic")

\* lines 129-132: the name of the generated function
ExampleFuncName(topic) ==
    LET cut  == Prefix(StripChars(SubNonWordRuns(ExampleTitle(topic)), {"_"}), 30)
        name == IF cut = "" THEN "example" ELSE cut
    IN  IF Ch(name, 1) \in DigitSet THEN "f_" \o name ELSE name

\* fault variant of ExampleBranch: the predicate rule is tried first
ExampleBranchPredicateFirst(title) ==
    IF Contains(title, "validate") \/ Contains(title, "is_") \/ Contains(title, "check")
    THEN "bool"
    ELSE IF Contains(title, "sum") \/ Contains(title, "total") \/ Contains(title, "add")
         THEN "sum"
    ELSE IF Contains(title, "reverse") \/ Contains(title, "reversed") THEN "reverse"
    ELSE "echo"

\* the branch of lines 133-140 taken for the lower-cased title
ExampleBranch(title) ==
    IF Contains(title, "sum") \/ Contains(title, "total") \/ Contains(title, "add") THEN "sum"
    ELSE IF Contains(title, "reverse") \/ Contains(title, "reversed") THEN "reverse"
    ELSE IF Contains(title, "validate") \/ Contains(title, "is_") \/ Contains(title, "check")
         THEN "bool"
    ELSE "echo"

\* the f-strings of lines 134, 136, 138 and 140
ExampleTemplate(branch, func_name) ==
    CASE branch = "sum" ->
           "def " \o func_name \o "(numbers):\n"
           \o "    \"\"\"Return the sum of a list of numbers.\"\"\"\n"
           \o "    return sum(numbers)\n"
      [] branch = "reverse" ->
           "def " \o func_name \o "(s):\n"
           \o "    \"\"\"Return the reversed string.\"\"\"\n"
           \o "    return s[::-1]\n"
      [] branch = "bool" ->
           "def " \o func_name \o "(value):\n"
           \o "    \"\"\"A simple truthy checker.\"\"\"\n"
           \o "    return bool(value)\n"
      [] OTHER ->
           "def " \o func_name \o "(x):\n"
           \o "    \"\"\"Return the input unchanged (example).\"\"\"\n"
           \o "    return x\n"

\* _generate_example_code(topic)
generate_example_code(topic) ==
    ExampleTemplate(ExampleBranch(ExampleTitle(topic)), ExampleFuncName(topic))

---------------------------------------------------------------------------
(* _generate_student_skeleton (lines 144-162).                             *)

RECURSIVE SkeletonLines(_, _, _)
\* the loop of lines 149-159 from line k on, in_def as given
SkeletonLines(lines, k, in_def) ==
    IF k > Len(lines) THEN <<>>
    ELSE IF StartsWith(lines[k], "def ")
         THEN <<lines[k]>> \o SkeletonLines(lines, k + 1, TRUE)
    ELSE IF in_def
         THEN <<"    # TODO: implement this function", "    raise NotImplementedError()">>
              \o SkeletonLines(lines, k + 1, FALSE)
    ELSE <<lines[k]>> \o SkeletonLines(lines, k + 1, FALSE)

\* _generate_student_skeleton(example_code)
generate_student_skeleton(example_code) ==
    LET out_lines == SkeletonLines(SplitLines(example_code), 1, FALSE)
    IN  IF out_lines = <<>> THEN "# TODO: implement\n" ELSE Join("\n", out_lines) \o "\n"

---------------------------------------------------------------------------
(* _generate_test_for_example (lines 165-203).  src is what lines 172-183  *)
(* read from the example file: its text, or '' when it does not exist.     *)

\* fault variant of TestBranch: the source is never looked at
TestBranchNoSource(src) == "echo"

\* the branch of lines 185-201 taken for the source text src
TestBranch(src) ==
    IF Contains(src, "return sum") \/ Contains(src, "sum(") THEN "sum"
    ELSE IF Contains(src, "return s[::-1]") \/ Contains(src, "[::-1]") THEN "reverse"
    ELSE IF Contains(src, "return bool") \/ Contains(src, "bool(") THEN "truthy"
    ELSE "echo"

\* fault variant of TestBody: one assertion for every branch
TestBodyOneAssertion(branch, func_name) ==
    << "def test_" \o func_name \o "_" \o branch \o "_basic():",
       "    assert " \o func_name \o "(42) == 42" >>

\* the three lines appended by the branch taken
TestBody(branch, func_name) ==
    CASE branch = "sum" ->
           << "def test_" \o func_name \o "_sum_basic():",
              "    assert " \o func_name \o "([1,2,3]) == 6",
              "    assert " \o func_name \o "([]) == 0" >>
      [] branch = "reverse" ->
           << "def test_" \o func_name \o "_reverse_basic():",
              "    assert " \o func_name \o "('abc') == 'cba'",
              "    assert " \o func_name \o "('') == ''" >>
      [] branch = "truthy" ->
           << "def test_" \o func_name \o "_truthy_basic():",
              "    assert " \o func_name \o "(1) is True",
              "    assert " \o func_name \o "(0) is False" >>
      [] OTHER ->
           << "def test_" \o func_name \o "_echo_basic():",
              "    assert " \o func_name \o "(42) == 42",
              "    assert " \o func_name \o "('x') == 'x'" >>

\* the list tests of lines 167-201
TestLines(example_module, func_name, src) ==
    << "import pytest", "from " \o example_module \o " import " \o func_name >>
    \o TestBody(TestBranch(src), func_name)

\* _generate_test_for_example(topic, example_module, func_name, example_file_path)
generate_test_for_example(example_module, func_name, src) ==
    Join("\n", TestLines(example_module, func_name, src)) \o "\n"

---------------------------------------------------------------------------
(* The per-topic body of create_lesson_package (lines 229-259).            *)

\* fault variant of SafeTitle: no prefix before a leading digit
SafeTitleNoPrefix(topic, n) ==
    LET raw == IF topic.title # "" THEN topic.title ELSE "topic_" \o IntStr(n)
        cut == Prefix(Lower(StripChars(CollapseUnderscores(SubNonWordRuns(raw)), {"_"})), 40)
    IN  IF cut = "" THEN "topic_" \o IntStr(n) ELSE cut

\* lines 230-235: safe_title, the slug of topic number n
SafeTitle(topic, n) ==
    LET raw == IF topic.title # "" THEN topic.title ELSE "topic_" \o IntStr(n)
        cut == Prefix(Lower(StripChars(CollapseUnderscores(SubNonWordRuns(raw)), {"_"})), 40)
        st  == IF cut = "" THEN "topic_" \o IntStr(n) ELSE cut
    IN  IF Ch(st, 1) \in DigitSet THEN "t_" \o st ELSE st

\* lines 236-238
ExampleName(slug) == "example_" \o slug \o ".py"
StudentName(slug) == "student_" \o slug \o ".py"
TestName(slug) == "test_" \o slug \o ".py"

\* lines 243-248: the function name read back from the example source
FuncNameOf(example_code) ==
    LET w == SpanLen(example_code, SpaceSet, 4)
        n == SpanLen(example_code, WordSet, 4 + w)
        m == IF StartsWith(example_code, "def") /\ w >= 1 /\ n >= 1
             THEN SubSeq(example_code, 4 + w, 3 + w + n) ELSE "example"
        f == SubNonWordRuns(m)
    IN  IF f # "" /\ Ch(f, 1) \in DigitSet THEN "f_" \o f ELSE f

\* fault variant of ModulePath: the module of the student skeleton
ModulePathOfStudent(example_name) ==
    "students.student_" \o SubSeq(example_name, 9, Len(example_name) - 3)

\* line 256: Path(example_name).stem drops the suffix ".py"
ModulePath(example_name) == "examples." \o SubSeq(example_name, 1, Len(example_name) - 3)

---------------------------------------------------------------------------
(* Values of the variables of a machine that is not running.               *)

PkgOff ==
    /\ fs = <<>> /\ pc = "off" /\ lesson_markdown = "" /\ name_arg = <<>>
    /\ lesson_name = "" /\ topics = <<>> /\ i = 0 /\ created = <<>> /\ mk = 0
    /\ calls = 0 /\ prev = <<>> /\ err = {} /\ entry = <<>>

SegOff == seg = [pc |-> "off"]

TlOff == tl = [pc |-> "off"]

SkOff == sk = [pc |-> "off"]

LgOff == lg = [pc |-> "off"]

TsOff == ts = [pc |-> "off"]

CliOff == cli = [pc |-> "off"]

DvOff == dv = [pc |-> "off"]

RestOff == LgOff /\ TsOff /\ CliOff /\ DvOff

---------------------------------------------------------------------------
(* SpecSeg: one run of _split_into_topics, one loop iteration per step.    *)

\* lines a lesson text is assembled from
SegPieces ==
    { "# Sum\n", "## Is a\n", "  # Check \n", "- add up\n", "2. two\n",
      "body text\n", "\n", "#nospace\n", "  * item \n" }

RECURSIVE TextsOf(_)
\* every text of at most n pieces
TextsOf(n) ==
    IF n = 0 THEN {""}
    ELSE LET r == TextsOf(n - 1) IN r \cup {t \o p : t \in r, p \in SegPieces}

SegTexts == TextsOf(MaxLines)

SegInit ==
    /\ \E t \in SegTexts :
         seg = [pc |-> "scan", text |-> t, lines |-> SplitLines(t), k |-> 1, st |-> InitScan]
    /\ PkgOff /\ TlOff /\ SkOff /\ RestOff

\* the loop is at a line that takes the branch kind
SegAt(kind) ==
    /\ seg.pc = "scan"
    /\ seg.k <= Len(seg.lines)
    /\ LineKind(seg.st, seg.lines[seg.k]) = kind

SegAfterLine == [seg EXCEPT !.st = ScanLine(seg.st, seg.lines[seg.k]), !.k = seg.k + 1]

\* lines 98-101
SegBlank ==
    /\ SegAt("blank")
    /\ seg' = SegAfterLine
    /\ UNCHANGED <<pkgvars, tl, sk, restvars>>

\* lines 102-107
SegHeading ==
    /\ SegAt("heading")
    /\ seg' = SegAfterLine
    /\ UNCHANGED <<pkgvars, tl, sk, restvars>>

\* lines 108-113
SegList ==
    /\ SegAt("list")
    /\ seg' = SegAfterLine
    /\ UNCHANGED <<pkgvars, tl, sk, restvars>>

\* line 114
SegBody ==
    /\ SegAt("body")
    /\ seg' = SegAfterLine
    /\ UNCHANGED <<pkgvars, tl, sk, restvars>>

\* lines 116-123
SegReturn ==
    /\ seg.pc = "scan"
    /\ seg.k > Len(seg.lines)
    /\ seg' = [seg EXCEPT !.pc = "done", !.st = FinishScan(seg.st, seg.text)]
    /\ UNCHANGED <<pkgvars, tl, sk, restvars>>

SegNext == SegBlank \/ SegHeading \/ SegList \/ SegBody \/ SegReturn

SpecSeg == SegInit /\ [][SegNext]_vars

---------------------------------------------------------------------------
(* SpecTitle: the per-topic body of create_lesson_package for one topic,   *)
(* the example file being the only file it reads back.                     *)

TitleFrags ==
    { "sum", "Total", "add", "reverse", "validate", "is_", "check", "bool",
      "9", "!", " ", "_", "a long Topic name, here " }

RECURSIVE TitlesOf(_)
TitlesOf(n) ==
    IF n = 0 THEN {""}
    ELSE LET r == TitlesOf(n - 1) IN r \cup {t \o f : t \in r, f \in TitleFrags}

Titles == TitlesOf(MaxFrags) \cup {"Sum of values", "Reverse a string"}

\* positions of the topic in the lesson (the i of line 228)
TopicNumbers == {1, 10}

TlInit ==
    /\ \E t \in Titles, n \in TopicNumbers :
         tl = [pc |-> "slug", topic |-> [title |-> t, summary |-> ""], n |-> n,
               slug |-> "", example_code |-> "", student_code |-> "", func_name |-> "",
               example_file |-> <<>>, test_code |-> ""]
    /\ PkgOff /\ SegOff /\ SkOff /\ RestOff

\* lines 230-238
TlSlug ==
    /\ tl.pc = "slug"
    /\ tl' = [tl EXCEPT !.pc = "generate", !.slug = SafeTitle(tl.topic, tl.n)]
    /\ UNCHANGED <<pkgvars, seg, sk, restvars>>

\* lines 240-248
TlGenerate ==
    /\ tl.pc = "generate"
    /\ LET code == generate_example_code(tl.topic)
       IN  tl' = [tl EXCEPT !.pc = "write", !.example_code = code,
                            !.student_code = generate_student_skeleton(code),
                            !.func_name = FuncNameOf(code)]
    /\ UNCHANGED <<pkgvars, seg, sk, restvars>>

\* lines 251-254
TlWrite ==
    /\ tl.pc = "write"
    /\ tl' = [tl EXCEPT !.pc = "test", !.example_file = <<tl.example_code>>]
    /\ UNCHANGED <<pkgvars, seg, sk, restvars>>

\* lines 256-259
TlTest ==
    /\ tl.pc = "test"
    /\ LET src == IF tl.example_file # <<>> THEN tl.example_file[1] ELSE ""
       IN  tl' = [tl EXCEPT !.pc = "done",
                            !.test_code = generate_test_for_example(
                                ModulePath(ExampleName(tl.slug)), tl.func_name, src)]
    /\ UNCHANGED <<pkgvars, seg, sk, restvars>>

TlNext == TlSlug \/ TlGenerate \/ TlWrite \/ TlTest

SpecTitle == TlInit /\ [][TlNext]_vars

---------------------------------------------------------------------------
(* SpecSkel: one run of _generate_student_skeleton (lines 144-162), one    *)
(* loop iteration per step.                                                *)

\* lines 147-148
InitSkel == [out_lines |-> <<>>, in_def |-> FALSE]

\* which branch of the loop body (lines 150-159) the line ln takes
SkelKind(st, ln) ==
    IF StartsWith(ln, "def ") THEN "def"
    ELSE IF st.in_def THEN "todo"
    ELSE "copy"

\* fault variant of SkelLine: lines outside a callable are not kept
SkelLineDropsOthers(st, ln) ==
    CASE SkelKind(st, ln) = "def" ->
           [out_lines |-> Append(st.out_lines, ln), in_def |-> TRUE]
      [] SkelKind(st, ln) = "todo" ->
           [out_lines |-> st.out_lines \o <<"    # TODO: implement this function",
                                            "    raise NotImplementedError()">>,
            in_def |-> FALSE]
      [] OTHER -> st

\* one iteration of the loop of line 149
SkelLine(st, ln) ==
    CASE SkelKind(st, ln) = "def" ->
           [out_lines |-> Append(st.out_lines, ln), in_def |-> TRUE]
      [] SkelKind(st, ln) = "todo" ->
           [out_lines |-> st.out_lines \o <<"    # TODO: implement this function",
                                            "    raise NotImplementedError()">>,
            in_def |-> FALSE]
      [] OTHER -> [st EXCEPT !.out_lines = Append(@, ln)]

\* lines 160-162
SkelResult(out_lines) ==
    IF out_lines = <<>> THEN "# TODO: implement\n" ELSE Join("\n", out_lines) \o "\n"

\* lines an example source is assembled from
SkelPieces ==
    { "def f(x):\n", "def g(s):  \n", "    \"\"\"Doc.\"\"\"\n", "    return x\n",
      "x = 1\r\n", "\n", "# note\n", " def h():\n" }

RECURSIVE SourcesOf(_)
\* every source of at most n pieces
SourcesOf(n) ==
    IF n = 0 THEN {""}
    ELSE LET r == SourcesOf(n - 1) IN r \cup {t \o p : t \in r, p \in SkelPieces}

SkelSources == SourcesOf(MaxSrcLines)

SkInit ==
    /\ \E c \in SkelSources :
         sk = [pc |-> "loop", example_code |-> c, lines |-> SplitLines(c), k |-> 1,
               st |-> InitSkel, result |-> <<>>]
    /\ PkgOff /\ SegOff /\ TlOff /\ RestOff

\* the loop is at a line that takes the branch kind
SkAt(kind) ==
    /\ sk.pc = "loop"
    /\ sk.k <= Len(sk.lines)
    /\ SkelKind(sk.st, sk.lines[sk.k]) = kind

SkAfterLine == [sk EXCEPT !.st = SkelLine(sk.st, sk.lines[sk.k]), !.k = sk.k + 1]

\* lines 150-153
SkDef ==
    /\ SkAt("def")
    /\ sk' = SkAfterLine
    /\ UNCHANGED <<pkgvars, seg, tl, restvars>>

\* lines 154-158
SkTodo ==
    /\ SkAt("todo")
    /\ sk' = SkAfterLine
    /\ UNCHANGED <<pkgvars, seg, tl, restvars>>

\* line 159
SkCopy ==
    /\ SkAt("copy")
    /\ sk' = SkAfterLine
    /\ UNCHANGED <<pkgvars, seg, tl, restvars>>

\* lines 160-162
SkReturn ==
    /\ sk.pc = "loop"
    /\ sk.k > Len(sk.lines)
    /\ sk' = [sk EXCEPT !.pc = "done", !.result = <<SkelResult(sk.st.out_lines)>>]
    /\ UNCHANGED <<pkgvars, seg, tl, restvars>>

SkNext == SkDef \/ SkTodo \/ SkCopy \/ SkReturn

SpecSkel == SkInit /\ [][SkNext]_vars

---------------------------------------------------------------------------
(* Spec: create_lesson_package (lines 206-277) against the destination     *)
(* directory.  A path is the sequence of its components below out_dir      *)
(* (<<>> is out_dir itself); fs maps every existing path to its node.  The *)
(* manifest file holds the value json.dumps serialises.                    *)

Dir == [kind |-> "dir"]
File(data) == [kind |-> "file", data |-> data]

\* p is b or lies below b
Under(p, b) == Len(p) >= Len(b) /\ SubSeq(p, 1, Len(b)) = b

\* fault variant of Write: an existing file is left as it is
WriteKeepsExisting(f, p, node) ==
    [q \in DOMAIN f \cup {p} |-> IF q \in DOMAIN f THEN f[q] ELSE node]

\* Path.write_text / Path.mkdir on one path
Write(f, p, node) == [q \in DOMAIN f \cup {p} |-> IF q = p THEN node ELSE f[q]]

\* the tree f without the paths of gone
Remove(f, gone) == [q \in DOMAIN f \ gone |-> f[q]]

\* the entries of directory b
Children(f, b) == {q \in DOMAIN f : Len(q) = Len(b) + 1 /\ Under(q, b)}

\* the part of f at and below b
Tree(f, b) == [q \in {x \in DOMAIN f : Under(x, b)} |-> f[q]]

\* line 209: the resolved lesson name
ResolveName(text, name) ==
    IF Truthy(name) THEN name[1]
    ELSE LET first == IF text # "" THEN SplitLines(text)[1] ELSE "lesson"
         IN  Prefix(Strip(StripChars(SubEach(first, WordSet \cup {"-"}), {"#", " "})), 40)

\* line 210: out / lesson_name (out / "" is out)
BaseOf(name) == IF name = "" THEN <<>> ELSE <<name>>

Base == BaseOf(lesson_name)

\* lines 214-217
MemberDirs == <<"examples", "students", "tests", "solutions">>
ExamplesDir == Base \o <<"examples">>
StudentDir == Base \o <<"students">>
TestsDir == Base \o <<"tests">>
SolutionsDir == Base \o <<"solutions">>
ManifestPath == Base \o <<"manifest.json">>

\* fault variant of BaseExists: an existing package is never removed
BaseExistsNever(f, b) == FALSE

\* line 212: base.exists()
BaseExists(f, b) == b \in DOMAIN f

\* Path.mkdir(parents=True, exist_ok=True) of base / d
MkdirParents(f, b, d) ==
    LET need == {<<>>, b, b \o <<d>>}
    IN  [q \in DOMAIN f \cup need |-> IF q \in DOMAIN f THEN f[q] ELSE Dir]

\* fault variant of CreatedInit: the list of the previous call is kept
CreatedInitStale == created

\* line 227
CreatedInit == <<>>

\* fault variant of CreatedEntry: the solution path is built from the example name
CreatedEntryWrongSolution(topic, slug) ==
    [ topic    |-> topic.title,
      example  |-> ExamplesDir \o <<ExampleName(slug)>>,
      student  |-> StudentDir \o <<StudentName(slug)>>,
      solution |-> SolutionsDir \o <<ExampleName(slug)>>,
      test     |-> TestsDir \o <<TestName(slug)>> ]

\* lines 261-267
CreatedEntry(topic, slug) ==
    [ topic    |-> topic.title,
      example  |-> ExamplesDir \o <<ExampleName(slug)>>,
      student  |-> StudentDir \o <<StudentName(slug)>>,
      solution |-> SolutionsDir \o <<StudentName(slug)>>,
      test     |-> TestsDir \o <<TestName(slug)>> ]

\* fault variant of CreatedAppend: the entry is put in front
CreatedPrepend(cr, e) == <<e>> \o cr

\* line 261: created.append(...)
CreatedAppend(cr, e) == Append(cr, e)

\* fault variant of SolutionCode: the skeleton is written as the solution
SolutionCodeOfSkeleton(example_code) == generate_student_skeleton(example_code)

\* line 254: the text written to solutions/ is example_code
SolutionCode(example_code) == example_code

\* lines 172-183: the text of the example file, '' when it does not exist
ReadSource(f, p) == IF p \in DOMAIN f /\ f[p].kind = "file" THEN f[p].data ELSE ""

\* line 270: the directories that get a package marker
MarkerDirs == <<ExamplesDir, StudentDir, TestsDir, SolutionsDir, Base>>

\* lesson texts and lesson names the calls are made with
PkgTexts ==
    { "# Sum\nadd them\n# Is a\n", "# Sum\n", "# is_a\n# Is a\n", "# a__b\n# a_b\n",
      "\n# Sum\n", "" }

PkgNames == { <<>>, <<"pkg">> }

Init ==
    /\ fs = (<<>> :> Dir) @@ (<<"notes.txt">> :> File("keep"))
    /\ pc = "idle"
    /\ lesson_markdown = "" /\ name_arg = <<>> /\ lesson_name = ""
    /\ topics = <<>> /\ i = 0 /\ created = <<>> /\ mk = 0
    /\ calls = 0 /\ prev = <<>> /\ err = {} /\ entry = <<>>
    /\ SegOff /\ TlOff /\ SkOff /\ RestOff

\* lines 206-212: the call, the resolved name, the test base.exists()
PkgCall ==
    /\ pc = "idle"
    /\ calls < MaxCalls
    /\ \E text \in PkgTexts, name \in PkgNames :
         /\ lesson_markdown' = text
         /\ name_arg' = name
         /\ lesson_name' = ResolveName(text, name)
         /\ pc' = IF BaseExists(fs, BaseOf(ResolveName(text, name))) THEN "rmtree" ELSE "mkdir"
    /\ topics' = <<>> /\ i' = 0 /\ mk' = 0
    /\ err' = {} /\ entry' = fs
    /\ UNCHANGED <<fs, created, calls, prev, seg, tl, sk, restvars>>

\* line 213, shutil.rmtree(base): one entry of base, with all below it, is removed;
\* the entries go in the order the directory scan yields them, which is unspecified
PkgRmtreeEntry ==
    /\ pc = "rmtree"
    /\ \E c \in Children(fs, Base) :
         fs' = Remove(fs, {q \in DOMAIN fs : Under(q, c)})
    /\ UNCHANGED <<pc, lesson_markdown, name_arg, lesson_name, topics, i, created, mk,
                   calls, prev, seg, tl, sk, err, entry, restvars>>

\* line 213, the end of shutil.rmtree(base): the emptied base is removed
PkgRmtreeBase ==
    /\ pc = "rmtree"
    /\ Children(fs, Base) = {}
    /\ fs' = Remove(fs, {Base})
    /\ pc' = "mkdir"
    /\ UNCHANGED <<lesson_markdown, name_arg, lesson_name, topics, i, created, mk,
                   calls, prev, seg, tl, sk, err, entry, restvars>>

\* lines 214-221
PkgMkdirs ==
    /\ pc = "mkdir"
    /\ fs' = MkdirParents(MkdirParents(MkdirParents(MkdirParents(
                 fs, Base, "examples"), Base, "students"), Base, "tests"), Base, "solutions")
    /\ pc' = "readme"
    /\ UNCHANGED <<lesson_markdown, name_arg, lesson_name, topics, i, created, mk,
                   calls, prev, seg, tl, sk, err, entry, restvars>>

\* lines 224-227
PkgReadme ==
    /\ pc = "readme"
    /\ fs' = Write(fs, Base \o <<"README.md">>, File(lesson_markdown))
    /\ topics' = split_into_topics(lesson_markdown)
    /\ created' = CreatedInit
    /\ i' = 1
    /\ pc' = "loop"
    /\ UNCHANGED <<lesson_markdown, name_arg, lesson_name, mk, calls, prev, seg, tl, sk, err, entry, restvars>>

\* line 228: the next topic, or the end of the loop
PkgLoop ==
    /\ pc = "loop"
    /\ pc' = IF i <= Len(topics) THEN "example" ELSE "markers"
    /\ mk' = 1
    /\ UNCHANGED <<fs, lesson_markdown, name_arg, lesson_name, topics, i, created,
                   calls, prev, seg, tl, sk, err, entry, restvars>>

Slug == SafeTitle(topics[i], i)

\* lines 230-251
PkgExample ==
    /\ pc = "example"
    /\ fs' = Write(fs, ExamplesDir \o <<ExampleName(Slug)>>,
                   File(generate_example_code(topics[i])))
    /\ pc' = "student"
    /\ UNCHANGED <<lesson_markdown, name_arg, lesson_name, topics, i, created, mk,
                   calls, prev, seg, tl, sk, err, entry, restvars>>

\* line 252
PkgStudent ==
    /\ pc = "student"
    /\ fs' = Write(fs, StudentDir \o <<StudentName(Slug)>>,
                   File(generate_student_skeleton(generate_example_code(topics[i]))))
    /\ pc' = "solution"
    /\ UNCHANGED <<lesson_markdown, name_arg, lesson_name, topics, i, created, mk,
                   calls, prev, seg, tl, sk, err, entry, restvars>>

\* line 254
PkgSolution ==
    /\ pc = "solution"
    /\ fs' = Write(fs, SolutionsDir \o <<StudentName(Slug)>>,
                   File(SolutionCode(generate_example_code(topics[i]))))
    /\ pc' = "test"
    /\ UNCHANGED <<lesson_markdown, name_arg, lesson_name, topics, i, created, mk,
                   calls, prev, seg, tl, sk, err, entry, restvars>>

\* lines 256-267
PkgTest ==
    /\ pc = "test"
    /\ LET example_name == ExampleName(Slug)
           src == ReadSource(fs, ExamplesDir \o <<example_name>>)
           test_code == generate_test_for_example(
                            ModulePath(example_name),
                            FuncNameOf(generate_example_code(topics[i])), src)
       IN  fs' = Write(fs, TestsDir \o <<TestName(Slug)>>, File(test_code))
    /\ created' = CreatedAppend(created, CreatedEntry(topics[i], Slug))
    /\ i' = i + 1
    /\ pc' = "loop"
    /\ UNCHANGED <<lesson_markdown, name_arg, lesson_name, topics, mk, calls, prev, seg, tl, sk, err, entry, restvars>>

\* lines 270-273: one directory of the marker loop
PkgMarker ==
    /\ pc = "markers"
    /\ mk <= Len(MarkerDirs)
    /\ LET init == MarkerDirs[mk] \o <<"__init__.py">>
       IN  fs' = IF init \in DOMAIN fs THEN fs ELSE Write(fs, init, File("# package init\n"))
    /\ mk' = mk + 1
    /\ UNCHANGED <<pc, lesson_markdown, name_arg, lesson_name, topics, i, created,
                   calls, prev, seg, tl, sk, err, entry, restvars>>

\* lines 275-276
PkgManifest ==
    /\ pc = "markers"
    /\ mk > Len(MarkerDirs)
    /\ fs' = Write(fs, ManifestPath, File([lesson |-> lesson_name, created |-> created]))
    /\ pc' = "done"
    /\ UNCHANGED <<lesson_markdown, name_arg, lesson_name, topics, i, created, mk,
                   calls, prev, seg, tl, sk, err, entry, restvars>>

\* line 277
PkgReturn ==
    /\ pc = "done"
    /\ pc' = "idle"
    /\ calls' = calls + 1
    /\ prev' = << [text |-> lesson_markdown, name |-> name_arg, base |-> Base,
                   snap |-> Tree(fs, Base)] >>
    /\ UNCHANGED <<fs, lesson_markdown, name_arg, lesson_name, topics, i, created, mk, seg, tl, sk, err, entry, restvars>>

Next ==
    \/ PkgCall \/ PkgRmtreeEntry \/ PkgRmtreeBase \/ PkgMkdirs \/ PkgReadme \/ PkgLoop
    \/ PkgExample \/ PkgStudent \/ PkgSolution \/ PkgTest \/ PkgMarker \/ PkgManifest
    \/ PkgReturn

Spec == Init /\ [][Next]_vars

---------------------------------------------------------------------------
(* SpecFail: create_lesson_package with a file system whose operations can *)
(* raise OSError.  The function has no handler of its own, so an error     *)
(* raised by shutil.rmtree, Path.mkdir or Path.write_text ends the call;   *)
(* lines 173-183 catch what the reading of the example source raises.      *)

\* a file that a failed write_text created or truncated without writing its text
Partial == [kind |-> "partial"]

\* fault variant of OnError: the error is swallowed and the step goes on
OnErrorContinues(cur) == cur

\* the position of the call after an OSError raised at the step cur: the
\* exception leaves create_lesson_package
OnError(cur) == "failed"

RECURSIVE MkdirsUpTo(_, _, _)
\* lines 218-221 up to and including the j-th mkdir
MkdirsUpTo(f, b, j) ==
    IF j = 0 THEN f ELSE MkdirParents(MkdirsUpTo(f, b, j - 1), b, MemberDirs[j])

\* the file the step at pc writes
WriteTarget ==
    CASE pc = "readme" -> Base \o <<"README.md">>
      [] pc = "example" -> ExamplesDir \o <<ExampleName(Slug)>>
      [] pc = "student" -> StudentDir \o <<StudentName(Slug)>>
      [] pc = "solution" -> SolutionsDir \o <<StudentName(Slug)>>
      [] pc = "test" -> TestsDir \o <<TestName(Slug)>>
      [] OTHER -> IF mk <= Len(MarkerDirs) THEN MarkerDirs[mk] \o <<"__init__.py">>
                  ELSE ManifestPath

\* line 183: the source used when reading the example file raised
SourceAfterReadError == ""

\* line 213 raises: what is removed so far stays removed
PkgRmtreeFails ==
    /\ pc = "rmtree"
    /\ err' = err \cup {"rmtree"}
    /\ pc' = OnError(pc)
    /\ UNCHANGED <<fs, lesson_markdown, name_arg, lesson_name, topics, i, created, mk,
                   calls, prev, seg, tl, sk, entry, restvars>>

\* one of the four mkdir of lines 218-221 raises, the ones before it are done
PkgMkdirFails ==
    /\ pc = "mkdir"
    /\ \E j \in 0..(Len(MemberDirs) - 1) : fs' = MkdirsUpTo(fs, Base, j)
    /\ err' = err \cup {"mkdir"}
    /\ pc' = OnError(pc)
    /\ UNCHANGED <<lesson_markdown, name_arg, lesson_name, topics, i, created, mk,
                   calls, prev, seg, tl, sk, entry, restvars>>

\* the write_text of line 224, 251, 252, 254, 259, 273 or 276 raises, before or
\* after it has opened its file
PkgWriteFails ==
    /\ pc \in {"readme", "example", "student", "solution", "test", "markers"}
    /\ pc = "markers" => mk > Len(MarkerDirs) \/ WriteTarget \notin DOMAIN fs
    /\ fs' \in {fs, Write(fs, WriteTarget, Partial)}
    /\ err' = err \cup {"write"}
    /\ pc' = OnError(pc)
    /\ UNCHANGED <<lesson_markdown, name_arg, lesson_name, topics, i, created, mk,
                   calls, prev, seg, tl, sk, entry, restvars>>

\* lines 256-267 when the reading of the example source raises (lines 176-177):
\* the handler of line 182 sets src to '' and the call goes on
PkgTestReadFails ==
    /\ pc = "test"
    /\ LET example_name == ExampleName(Slug)
           test_code == generate_test_for_example(
                            ModulePath(example_name),
                            FuncNameOf(generate_example_code(topics[i])),
                            SourceAfterReadError)
       IN  fs' = Write(fs, TestsDir \o <<TestName(Slug)>>, File(test_code))
    /\ created' = CreatedAppend(created, CreatedEntry(topics[i], Slug))
    /\ i' = i + 1
    /\ err' = err \cup {"read"}
    /\ pc' = "loop"
    /\ UNCHANGED <<lesson_markdown, name_arg, lesson_name, topics, mk, calls, prev,
                   seg, tl, sk, entry, restvars>>

NextFail == Next \/ PkgRmtreeFails \/ PkgMkdirFails \/ PkgWriteFails \/ PkgTestReadFails

SpecFail == Init /\ [][NextFail]_vars

---------------------------------------------------------------------------
(* SpecLesson: one call of generate_lesson (lines 280-319), the notes loop *)
(* of _local_generate (lines 24-77) one iteration per step.                *)

\* s.rstrip()
RStrip(s) == SubSeq(s, 1, Len(s) - SpanLenBack(s, SpaceSet, Len(s)))

\* lines 34-37: the first line of lines that is not blank, as <<>> or <<line>>
FirstNonBlank(lines) ==
    LET at == {k \in 1..Len(lines) : Strip(lines[k]) # ""}
    IN  IF at = {} THEN <<>> ELSE <<lines[MinOf(at)]>>

\* lines 30, 33-40: title of the lesson for the raw template
LessonTitle(template) ==
    LET first == FirstNonBlank(SplitLines(Strip(template)))
    IN  IF Truthy(first) /\ Strip(first[1]) # "" THEN Strip(first[1]) ELSE "Lesson"

\* which branch of the loop body (lines 45-57) the raw line ln takes
NoteKind(bullets, ln) ==
    LET line == Strip(ln)
    IN  IF line = "" THEN "blank"
        ELSE IF StartsWith(line, "-") \/ StartsWith(line, "*") THEN "marker"
        ELSE IF Len(bullets) < 3 /\ Len(line) > 40 THEN "long"
        ELSE IF Len(bullets) < 3 THEN "short"
        ELSE "skip"

\* lines 45-57: bullets after one iteration of the loop of line 44
NoteLine(bullets, ln) ==
    LET line == Strip(ln)
    IN  CASE NoteKind(bullets, ln) = "marker" ->
               Append(bullets, LStripChars(line, {"-", "*", " "}))
          [] NoteKind(bullets, ln) = "long" ->
               Append(bullets, RStrip(Prefix(line, 60)) \o "...")
          [] NoteKind(bullets, ln) = "short" -> Append(bullets, line)
          [] OTHER -> bullets

\* line 62
DefaultBullets == <<"Introduce the topic.", "Show an example.", "Add exercises.">>

\* fault variant of LessonParts: the activities section is left out
LessonPartsNoActivities(title, bullets, template) ==
    <<"# " \o title \o "\n", "## Learning Objectives">>
    \o [k \in 1..Len(bullets) |-> "- " \o bullets[k]]
    \o <<"\n## Overview", template,
         "\n## Short Assessment", "- 3 short questions to check comprehension">>

\* lines 65-75: parts, template being the stripped template
LessonParts(title, bullets, template) ==
    <<"# " \o title \o "\n", "## Learning Objectives">>
    \o [k \in 1..Len(bullets) |-> "- " \o bullets[k]]
    \o <<"\n## Overview", template,
         "\n## Suggested Activities",
         "1. Quick demo/example\n2. Guided exercise\n3. Reflection questions",
         "\n## Short Assessment", "- 3 short questions to check comprehension">>

\* lines 61-62, 65-77: the lesson for the bullets the loop collected
LessonText(title, bullets, template) ==
    Join("\n\n", LessonParts(title, IF bullets = <<>> THEN DefaultBullets ELSE bullets,
                             template))

\* lines a template is assembled from
TemplatePieces == { "Introduction to X\n", "  \n", "  This is a short template. \n" }

\* lines the notes are assembled from
NotePieces ==
    { "* - Show example \n", "\n", "Add exercise\n",
      "Explain at length how the accumulator changes on every pass of the loop body\n" }

RECURSIVE TextsFrom(_, _)
\* every text of at most n of the pieces
TextsFrom(pieces, n) ==
    IF n = 0 THEN {""}
    ELSE LET r == TextsFrom(pieces, n - 1) IN r \cup {t \o p : t \in r, p \in pieces}

LessonTemplates == TextsFrom(TemplatePieces, MaxTplLines)

LessonNotes == TextsFrom(NotePieces, MaxNoteLines)

\* os.environ.get("OPENAI_API_KEY"): <<>> when unset
ApiKeys == { <<>>, <<"">>, <<"sk-test">> }

\* the argument model
ModelArgs == { <<>>, <<"gpt-4o">> }

\* what chain.run can return
RemoteTexts == { "remote lesson" }

LgInit ==
    /\ \E t \in LessonTemplates, n \in LessonNotes, key \in ApiKeys, m \in ModelArgs :
         lg = [pc |-> "call", template |-> t, notes |-> n, key |-> key, model |-> m,
               lines |-> <<>>, k |-> 0, bullets |-> <<>>, title |-> "",
               remote |-> "none", result |-> <<>>, raised |-> FALSE]
    /\ PkgOff /\ SegOff /\ TlOff /\ SkOff /\ TsOff /\ CliOff /\ DvOff

\* lines 30-40: entry of _local_generate, up to the loop of line 44
LgEnterLocal ==
    [lg EXCEPT !.pc = "notes", !.title = LessonTitle(lg.template),
               !.lines = SplitLines(Strip(lg.notes)), !.k = 1, !.bullets = <<>>]

\* line 286 false, line 319: no usable key, the local generator is called
LgNoKey ==
    /\ lg.pc = "call"
    /\ ~Truthy(lg.key)
    /\ lg' = LgEnterLocal
    /\ UNCHANGED <<pkgvars, seg, tl, sk, ts, cli, dv>>

\* lines 286-313: the key is present, chain.run returns out
LgRemoteReturns ==
    /\ lg.pc = "call"
    /\ Truthy(lg.key)
    /\ \E out \in RemoteTexts :
         lg' = [lg EXCEPT !.pc = "done", !.remote = "returned", !.result = <<out>>]
    /\ UNCHANGED <<pkgvars, seg, tl, sk, ts, cli, dv>>

\* fault variant of LgRemoteRaises: the exception leaves generate_lesson
LgRemotePropagates ==
    /\ lg.pc = "call"
    /\ Truthy(lg.key)
    /\ lg' = [lg EXCEPT !.pc = "done", !.remote = "raised", !.raised = TRUE]
    /\ UNCHANGED <<pkgvars, seg, tl, sk, ts, cli, dv>>

\* lines 287-316, 319: an import or a call of the try block raises an Exception
LgRemoteRaises ==
    /\ lg.pc = "call"
    /\ Truthy(lg.key)
    /\ lg' = [LgEnterLocal EXCEPT !.remote = "raised"]
    /\ UNCHANGED <<pkgvars, seg, tl, sk, ts, cli, dv>>

\* the loop of line 44 is at a line that takes the branch kind
LgAt(kind) ==
    /\ lg.pc = "notes"
    /\ lg.k <= Len(lg.lines)
    /\ Len(lg.bullets) < 3
    /\ NoteKind(lg.bullets, lg.lines[lg.k]) = kind

LgAfterLine == [lg EXCEPT !.bullets = NoteLine(lg.bullets, lg.lines[lg.k]), !.k = lg.k + 1]

\* lines 46-47
LgBlank ==
    /\ LgAt("blank")
    /\ lg' = LgAfterLine
    /\ UNCHANGED <<pkgvars, seg, tl, sk, ts, cli, dv>>

\* lines 49-50
LgMarker ==
    /\ LgAt("marker")
    /\ lg' = LgAfterLine
    /\ UNCHANGED <<pkgvars, seg, tl, sk, ts, cli, dv>>

\* lines 53-55
LgLong ==
    /\ LgAt("long")
    /\ lg' = LgAfterLine
    /\ UNCHANGED <<pkgvars, seg, tl, sk, ts, cli, dv>>

\* lines 56-57
LgShort ==
    /\ LgAt("short")
    /\ lg' = LgAfterLine
    /\ UNCHANGED <<pkgvars, seg, tl, sk, ts, cli, dv>>

\* lines 58-59 or the end of the loop, then lines 61-77
LgReturn ==
    /\ lg.pc = "notes"
    /\ (lg.k > Len(lg.lines) \/ Len(lg.bullets) >= 3)
    /\ lg' = [lg EXCEPT !.pc = "done",
                        !.result = <<LessonText(lg.title, lg.bullets, Strip(lg.template))>>]
    /\ UNCHANGED <<pkgvars, seg, tl, sk, ts, cli, dv>>

LgNext ==
    LgNoKey \/ LgRemoteReturns \/ LgRemoteRaises \/ LgBlank \/ LgMarker \/ LgLong \/ LgShort
    \/ LgReturn

SpecLesson == LgInit /\ [][LgNext]_vars

---------------------------------------------------------------------------
(* SpecTest: one call of _generate_test_for_example (lines 165-203).  file *)
(* is the file the call looks for (at example_file_path, or at the path of *)
(* example_module when no path is passed): <<>> when it does not exist,    *)
(* <<text>> otherwise.                                                     *)

\* lines an example file is assembled from
TestSrcPieces ==
    { "def f(x):\n", "    return sum(numbers)\n", "    return summary\n",
      "    return s[::-1]\n", "    return bool(value)\n", "    return boolean\n",
      "    return x\n" }

RECURSIVE TestSourcesOf(_)
\* every text of at most n pieces
TestSourcesOf(n) ==
    IF n = 0 THEN {""}
    ELSE LET r == TestSourcesOf(n - 1) IN r \cup {t \o p : t \in r, p \in TestSrcPieces}

TestFiles == {<<>>} \cup {<<t>> : t \in TestSourcesOf(MaxTestSrcLines)}

TestFuncNames == {"f", "sum_of_values"}

TestPaths == {<<>>, <<"examples/example_f.py">>}

TsInit ==
    /\ \E file \in TestFiles, f \in TestFuncNames, path \in TestPaths :
         ts = [pc |-> "read", example_module |-> "examples.example_f", func_name |-> f,
               example_file_path |-> path, file |-> file, raised |-> FALSE, src |-> "",
               result |-> <<>>]
    /\ PkgOff /\ SegOff /\ TlOff /\ SkOff /\ LgOff /\ CliOff /\ DvOff

\* lines 172-181: the file exists and is read
TsRead ==
    /\ ts.pc = "read"
    /\ ts.file # <<>>
    /\ ts' = [ts EXCEPT !.pc = "select", !.src = ts.file[1]]
    /\ UNCHANGED <<pkgvars, seg, tl, sk, lg, cli, dv>>

\* lines 172-181: the file does not exist
TsReadMissing ==
    /\ ts.pc = "read"
    /\ ts.file = <<>>
    /\ ts' = [ts EXCEPT !.pc = "select", !.src = ""]
    /\ UNCHANGED <<pkgvars, seg, tl, sk, lg, cli, dv>>

\* lines 182-183: reading the file raises
TsReadRaises ==
    /\ ts.pc = "read"
    /\ ts.file # <<>>
    /\ ts' = [ts EXCEPT !.pc = "select", !.raised = TRUE, !.src = ""]
    /\ UNCHANGED <<pkgvars, seg, tl, sk, lg, cli, dv>>

\* the call is at line 185 with a source that takes branch
TsAt(branch) == ts.pc = "select" /\ TestBranch(ts.src) = branch

\* line 203
TsReturn ==
    [ts EXCEPT !.pc = "done",
               !.result = <<generate_test_for_example(ts.example_module, ts.func_name, ts.src)>>]

\* lines 185-188
TsSum ==
    /\ TsAt("sum")
    /\ ts' = TsReturn
    /\ UNCHANGED <<pkgvars, seg, tl, sk, lg, cli, dv>>

\* lines 189-192
TsReverse ==
    /\ TsAt("reverse")
    /\ ts' = TsReturn
    /\ UNCHANGED <<pkgvars, seg, tl, sk, lg, cli, dv>>

\* lines 193-196
TsTruthy ==
    /\ TsAt("truthy")
    /\ ts' = TsReturn
    /\ UNCHANGED <<pkgvars, seg, tl, sk, lg, cli, dv>>

\* lines 197-201
TsEcho ==
    /\ TsAt("echo")
    /\ ts' = TsReturn
    /\ UNCHANGED <<pkgvars, seg, tl, sk, lg, cli, dv>>

TsNext == TsRead \/ TsReadMissing \/ TsReadRaises \/ TsSum \/ TsReverse \/ TsTruthy \/ TsEcho

SpecTest == TsInit /\ [][TsNext]_vars

---------------------------------------------------------------------------
(* The calculator.  A Python number is [kind, m, e]: kind "float" or "int" *)
(* with the value m * 10^e (m not a multiple of 10, or m = 0 and e = 0),   *)
(* "inf" with the sign in m, "nan", "bigint" for an int beyond the range   *)
(* of float, and "str" for a value that is not a number.  Arithmetic is    *)
(* decimal: the rounding of a float in its last bits is not modelled.      *)

Abs(n) == IF n < 0 THEN 0 - n ELSE n

RECURSIVE Pow10(_)
Pow10(n) == IF n = 0 THEN 1 ELSE 10 * Pow10(n - 1)

RECURSIVE Digits(_)
\* number of decimal digits of the natural number n
Digits(n) == IF n < 10 THEN 1 ELSE 1 + Digits(n \div 10)

Value(kind, m, e) == [kind |-> kind, m |-> m, e |-> e]

RECURSIVE Norm(_, _, _)
\* the value m * 10^e of kind kind, in normal form
Norm(kind, m, e) ==
    IF m = 0 THEN Value(kind, 0, 0)
    ELSE IF m % 10 = 0 THEN Norm(kind, m \div 10, e + 1)
    ELSE Value(kind, m, e)

Nan == Value("nan", 0, 0)

Inf(sign) == Value("inf", sign, 0)

Sign(m) == IF m < 0 THEN 0 - 1 ELSE 1

\* the decimal exponent of the leading digit of a value other than 0
Mag(x) == x.e + Digits(Abs(x.m)) - 1

\* the two leading digits of a value other than 0
LeadingTwo(x) ==
    LET a == Abs(x.m)
    IN  IF a < 10 THEN 10 * a ELSE a \div Pow10(Digits(a) - 2)

\* the float nearest to m * 10^e: inf beyond 1.8e308 (sys.float_info.max is
\* 1.797...e308), 0.0 below 2.5e-324, half the smallest subnormal
ToFloat(m, e) ==
    LET x == Norm("float", m, e)
    IN  IF x.m = 0 THEN x
        ELSE IF Mag(x) > 308 \/ (Mag(x) = 308 /\ LeadingTwo(x) >= 18) THEN Inf(Sign(m))
        ELSE IF Mag(x) < 0 - 324 \/ (Mag(x) = 0 - 324 /\ LeadingTwo(x) < 25)
             THEN Value("float", 0, 0)
        ELSE x

\* str.isdigit on every character of a non-empty s
AllDigits(s) == \A k \in 1..Len(s) : Ch(s, k) \in DigitSet

RECURSIVE IntVal(_)
\* int(s) for a string of digits
IntVal(s) ==
    IF s = "" THEN 0
    ELSE 10 * IntVal(Prefix(s, Len(s) - 1)) + (Find(DigitChars, Ch(s, Len(s)), 1) - 1)

\* the text of a float literal after its sign
Unsigned(l) == IF StartsWith(l, "-") \/ StartsWith(l, "+") THEN Suffix(l, 2) ELSE l

\* the part of a decimal literal before its "e"
MantissaText(body) ==
    IF Find(body, "e", 1) = 0 THEN body ELSE Prefix(body, Find(body, "e", 1) - 1)

\* the part of a decimal literal after its "e": <<>> without an "e"
ExponentText(body) ==
    IF Find(body, "e", 1) = 0 THEN <<>> ELSE <<Suffix(body, Find(body, "e", 1) + 1)>>

\* the digits before the point
IntPart(mant) == IF Find(mant, ".", 1) = 0 THEN mant ELSE Prefix(mant, Find(mant, ".", 1) - 1)

\* the digits after the point
FracPart(mant) == IF Find(mant, ".", 1) = 0 THEN "" ELSE Suffix(mant, Find(mant, ".", 1) + 1)

ValidMantissa(mant) ==
    AllDigits(IntPart(mant)) /\ AllDigits(FracPart(mant))
    /\ Len(IntPart(mant)) + Len(FracPart(mant)) >= 1

ValidExponent(expo) == Len(Unsigned(expo)) >= 1 /\ AllDigits(Unsigned(expo))

ExponentValue(expo) ==
    IF StartsWith(expo, "-") THEN 0 - IntVal(Unsigned(expo)) ELSE IntVal(Unsigned(expo))

\* the float of a valid decimal literal body with the sign sgn
DecimalValue(sgn, mant, expo) ==
    ToFloat(sgn * IntVal(IntPart(mant) \o FracPart(mant)),
            (IF expo = <<>> THEN 0 ELSE ExponentValue(expo[1])) - Len(FracPart(mant)))

\* float of the lower-case literal body with the sign sgn
ParseUnsigned(sgn, body) ==
    IF body = "nan" THEN <<Nan>>
    ELSE IF body \in {"inf", "infinity"} THEN <<Inf(sgn)>>
    ELSE IF /\ ValidMantissa(MantissaText(body))
            /\ (ExponentText(body) = <<>> \/ ValidExponent(ExponentText(body)[1]))
         THEN <<DecimalValue(sgn, MantissaText(body), ExponentText(body))>>
    ELSE <<>>

FloatSign(l) == IF StartsWith(l, "-") THEN 0 - 1 ELSE 1

\* float(s): <<value>>, or <<>> when float raises ValueError
ParseFloat(s) == ParseUnsigned(FloatSign(Lower(Strip(s))), Unsigned(Lower(Strip(s))))

\* isinstance(x, (int, float))
IsNumber(x) == x.kind \in {"int", "bigint", "float", "inf", "nan"}

IsZero(x) == x.kind \in {"int", "float"} /\ x.m = 0

IsOne(x) == x.kind \in {"int", "float"} /\ x.m = 1 /\ x.e = 0

\* abs(x) < EPSILON for a finite x, EPSILON = 1e-15 (operations line 31)
BelowEpsilon(x) == x.m = 0 \/ Mag(x) < 0 - 15

\* abs(x) > EPSILON for a finite x
AboveEpsilon(x) == x.m # 0 /\ (Mag(x) > 0 - 15 \/ (Mag(x) = 0 - 15 /\ Abs(x.m) # 1))

\* the kind of the result of an arithmetic operator on a and b
KindOf(a, b) == IF a.kind = "int" /\ b.kind = "int" THEN "int" ELSE "float"

Rounded(kind, m, e) == IF kind = "int" THEN Norm("int", m, e) ELSE ToFloat(m, e)

\* a + b for finite a and b: a value 10^18 times smaller than the other is
\* lost in the rounding of the sum
Sum(a, b) ==
    LET kind == KindOf(a, b)
        lo == Min(a.e, b.e)
    IN  IF a.m = 0 THEN Rounded(kind, b.m, b.e)
        ELSE IF b.m = 0 THEN Rounded(kind, a.m, a.e)
        ELSE IF kind = "float" /\ Mag(a) - Mag(b) >= 18 THEN Rounded(kind, a.m, a.e)
        ELSE IF kind = "float" /\ Mag(b) - Mag(a) >= 18 THEN Rounded(kind, b.m, b.e)
        ELSE Rounded(kind, a.m * Pow10(a.e - lo) + b.m * Pow10(b.e - lo), lo)

\* -b
Neg(b) == [b EXCEPT !.m = 0 - b.m]

\* a * b for finite a and b
Prod(a, b) == Rounded(KindOf(a, b), a.m * b.m, a.e + b.e)

\* a / b for finite a and b # 0, a float: the quotient of the mantissas to
\* at most six more digits
Quot(a, b) ==
    LET exact == {k \in 0..6 : (Abs(a.m) * Pow10(k)) % Abs(b.m) = 0}
        k == IF exact = {} THEN 6 ELSE MinOf(exact)
    IN  ToFloat(Sign(a.m) * Sign(b.m) * ((Abs(a.m) * Pow10(k)) \div Abs(b.m)),
                a.e - b.e - k)

Returned(v) == [kind |-> "return", exc |-> "", value |-> v]

Raised(exc) == [kind |-> "raise", exc |-> exc, value |-> Nan]

\* the classes of exceptions.py, and what they derive from
CalculatorErrors ==
    {"InvalidInputError", "DivisionByZeroError", "OverflowError", "UnderflowError",
     "CalculatorError"}

\* _validate_input (operations lines 34-62): <<>> or the exception raised;
\* math.isnan raises the built-in OverflowError for an int no float can hold
ValidateInput(value) ==
    IF ~IsNumber(value) THEN <<"InvalidInputError">>
    ELSE IF value.kind = "bigint" THEN <<"builtins.OverflowError">>
    ELSE IF value.kind = "nan" THEN <<"InvalidInputError">>
    ELSE IF value.kind = "inf" THEN <<"InvalidInputError">>
    ELSE <<>>

\* the guard clauses of every operation: _validate_input(a), then (b)
ValidateBoth(a, b) ==
    IF ValidateInput(a) # <<>> THEN ValidateInput(a) ELSE ValidateInput(b)

\* _check_overflow (operations lines 65-92): <<>> or the exception raised
CheckOverflow(result, a, b) ==
    IF result.kind = "inf" THEN <<"OverflowError">>
    ELSE IF /\ result.m # 0 /\ BelowEpsilon(result)
            /\ a.m # 0 /\ b.m # 0 /\ AboveEpsilon(a) /\ AboveEpsilon(b)
         THEN <<"UnderflowError">>
    ELSE <<>>

\* the common tail of add, subtract and multiply
Checked(result, a, b) ==
    IF CheckOverflow(result, a, b) # <<>> THEN Raised(CheckOverflow(result, a, b)[1])
    ELSE Returned(result)

\* add (operations lines 95-147)
add(a, b) ==
    IF ValidateBoth(a, b) # <<>> THEN Raised(ValidateBoth(a, b)[1])
    ELSE Checked(Sum(a, b), a, b)

\* subtract (operations lines 150-191)
subtract(a, b) ==
    IF ValidateBoth(a, b) # <<>> THEN Raised(ValidateBoth(a, b)[1])
    ELSE Checked(Sum(a, Neg(b)), a, b)

\* multiply (operations lines 194-254)
multiply(a, b) ==
    IF ValidateBoth(a, b) # <<>> THEN Raised(ValidateBoth(a, b)[1])
    ELSE IF IsZero(a) \/ IsZero(b) THEN Returned(Value("int", 0, 0))
    ELSE IF IsOne(a) THEN Returned(b)
    ELSE IF IsOne(b) THEN Returned(a)
    ELSE Checked(Prod(a, b), a, b)

\* which exit of divide (operations lines 260-340) the operands take
DivideExit(a, b) ==
    IF ValidateInput(a) # <<>> THEN "invalid_a"
    ELSE IF ValidateInput(b) # <<>> THEN "invalid_b"
    ELSE IF IsZero(b) THEN "zero_divisor"
    ELSE IF BelowEpsilon(b) THEN "small_divisor"
    ELSE IF IsZero(a) THEN "zero_dividend"
    ELSE IF CheckOverflow(Quot(a, b), a, b) # <<>> THEN "overflow"
    ELSE "quotient"

\* divide (operations lines 260-340)
divide(a, b) ==
    CASE DivideExit(a, b) = "invalid_a" -> Raised(ValidateInput(a)[1])
      [] DivideExit(a, b) = "invalid_b" -> Raised(ValidateInput(b)[1])
      [] DivideExit(a, b) \in {"zero_divisor", "small_divisor"} ->
           Raised("DivisionByZeroError")
      [] DivideExit(a, b) = "zero_dividend" -> Returned(Value("float", 0, 0))
      [] DivideExit(a, b) = "overflow" -> Raised(CheckOverflow(Quot(a, b), a, b)[1])
      [] OTHER -> Returned(Quot(a, b))

---------------------------------------------------------------------------
(* argparse, as build_parser configures it (answers main lines 81-122).    *)
(* An element of argv is [t, v]: t is "str" and v the string, or t names   *)
(* the type of an element that is not a str.                               *)

Str(s) == [t |-> "str", v |-> s]

Operations == {"add", "subtract", "multiply", "divide"}

HelpOptions == {"-h", "--help"}

VerboseOptions == {"-v", "--verbose"}

\* argparse's _negative_number_matcher: '^-\d+$|^-\d*\.\d+$'
NegativeNumberLike(s) ==
    /\ StartsWith(s, "-")
    /\ LET rest == Suffix(s, 2)
           dot == Find(rest, ".", 1)
       IN  \/ Len(rest) >= 1 /\ AllDigits(rest)
           \/ /\ dot > 0
              /\ AllDigits(Prefix(rest, dot - 1))
              /\ Len(Suffix(rest, dot + 1)) >= 1
              /\ AllDigits(Suffix(rest, dot + 1))

\* _parse_optional: the string is taken for an option, not for a positional
OptionLike(s) ==
    /\ Len(s) > 1
    /\ StartsWith(s, "-")
    /\ ~NegativeNumberLike(s)
    /\ ~Contains(s, " ")

SelectArgs(argv, Keep(_)) ==
    LET F[k \in 0..Len(argv)] ==
          IF k = 0 THEN <<>>
          ELSE IF Keep(argv[k].v) THEN Append(F[k - 1], argv[k].v) ELSE F[k - 1]
    IN  F[Len(argv)]

Parsed(kind, verbose, cmd, a, b) ==
    [kind |-> kind, verbose |-> verbose, cmd |-> cmd, a |-> a, b |-> b]

\* parser.parse_args(argv): "ok" with the namespace, "help" (the help text
\* on stdout, SystemExit(0)), "error" (usage and message on stderr,
\* SystemExit(2)) or "type_error" (TypeError for an element that is no str)
ParseArgs(argv) ==
    LET positions == {k \in 1..Len(argv) : ~OptionLike(argv[k].v)}
        p == IF positions = {} THEN Len(argv) + 1 ELSE MinOf(positions)
        before == SubSeq(argv, 1, p - 1)
        rest == SubSeq(argv, p + 1, Len(argv))
        IsHelp(s) == s \in HelpOptions
        IsVerbose(s) == s \in VerboseOptions
        IsUnknown(s) == s \notin HelpOptions \cup VerboseOptions
        IsOption(s) == OptionLike(s)
        IsPositional(s) == ~OptionLike(s)
        verbose == SelectArgs(before, IsVerbose) # <<>>
        operands == SelectArgs(rest, IsPositional)
        Failed(kind) == Parsed(kind, verbose, "", "", "")
    IN  IF \E k \in 1..Len(argv) : argv[k].t # "str" THEN Failed("type_error")
        ELSE IF SelectArgs(before, IsHelp) # <<>> THEN Failed("help")
        ELSE IF p > Len(argv) THEN Failed("error")
        ELSE IF argv[p].v \notin Operations THEN Failed("error")
        ELSE IF SelectArgs(rest, IsHelp) # <<>> THEN Failed("help")
        ELSE IF Len(operands) < 2 THEN Failed("error")
        ELSE IF \/ Len(operands) > 2
                \/ SelectArgs(rest, IsOption) # <<>>
                \/ SelectArgs(before, IsUnknown) # <<>>
             THEN Failed("error")
        ELSE Parsed("ok", verbose, argv[p].v, operands[1], operands[2])

---------------------------------------------------------------------------
(* main of the calculator.  variant "answers" is answers/src/main.py,      *)
(* variant "complete" is resources/examples/complete_implementation/       *)
(* main.py; they differ in the SystemExit handler and in the format of the *)
(* result.  stdout and stderr hold what print and argparse write; the      *)
(* records of the logging handlers are not part of the model.              *)

\* validate_operation_args (answers main lines 39-78): the two floats, or
\* <<>> when it raises InvalidInputError
ValidateOperationArgs(a, b) ==
    IF ParseFloat(a) = <<>> \/ ParseFloat(b) = <<>> THEN <<>>
    ELSE IF ParseFloat(a)[1].kind \in {"nan", "inf"} THEN <<>>
    ELSE IF ParseFloat(b)[1].kind \in {"nan", "inf"} THEN <<>>
    ELSE <<ParseFloat(a)[1], ParseFloat(b)[1]>>

\* operations[operation_name](a, b) (answers main lines 141-159)
Apply(operation_name, a, b) ==
    CASE operation_name = "add" -> add(a, b)
      [] operation_name = "subtract" -> subtract(a, b)
      [] operation_name = "multiply" -> multiply(a, b)
      [] OTHER -> divide(a, b)

\* execute_operation (answers main lines 125-171)
ExecuteOperation(operation_name, a, b) ==
    IF operation_name \notin Operations THEN Raised("InvalidInputError")
    ELSE LET r == Apply(operation_name, a, b)
         IN  IF r.kind = "raise" /\ r.exc \notin CalculatorErrors
             THEN Raised("InvalidInputError")
             ELSE r

\* float.is_integer
IsWhole(x) == x.m = 0 \/ x.e >= 0

\* abs(x) < 1e15
BelowE15(x) == x.m = 0 \/ Mag(x) < 15

Shown(fmt, value) == [fmt |-> fmt, value |-> value]

\* what main prints for result: answers main lines 208-216, complete main
\* lines 218-237
PrintResult(variant, parsed, result) ==
    IF variant = "answers"
    THEN IF result.kind = "float" /\ IsWhole(result) /\ BelowE15(result)
         THEN Shown("int", result)
         ELSE Shown("repr", result)
    ELSE IF parsed.cmd = "divide"
         THEN IF IsWhole(result) THEN Shown("int.0", result) ELSE Shown("g", result)
         ELSE IF IsWhole(result) /\ BelowE15(result)
              THEN IF Contains(parsed.a, ".") \/ Contains(parsed.b, ".")
                   THEN Shown("int.0", result)
                   ELSE Shown("int", result)
              ELSE Shown("g", result)

\* fault variant of HandlerOf: the clause for CalculatorError comes first
HandlerOfBaseFirst(exc) == [msg |-> "Calculator Error", code |-> 3]

\* the except clauses of the inner try, in their order (answers main lines
\* 219-237): the message printed to stderr and the exit code
HandlerOf(exc) ==
    IF exc = "DivisionByZeroError" THEN [msg |-> "Math Error", code |-> 2]
    ELSE IF exc = "InvalidInputError" THEN [msg |-> "Input Error", code |-> 1]
    ELSE [msg |-> "Calculator Error", code |-> 3]

\* the handler of SystemExit for e.code = code: answers main lines 239-242,
\* complete main lines 260-270
SystemExitCode(variant, argv, code) ==
    IF variant = "answers" THEN code
    ELSE IF code = 2 /\ argv # <<>> /\ \E k \in 1..Len(argv) : Contains(argv[k].v, "-inf")
         THEN code
         ELSE 0

\* the elements argv is made of
ArgTokens ==
    {Str(s) : s \in {"-v", "-h", "add", "subtract", "multiply", "divide", "pow",
                     "0", "5", "-1", "1e-18", "1e308", "abc", "nan", "inf", "-inf"}}
    \cup {[t |-> "int", v |-> "1"]}

RECURSIVE ArgvOf(_)
\* every argv of at most n elements
ArgvOf(n) ==
    IF n = 0 THEN {<<>>}
    ELSE LET r == ArgvOf(n - 1) IN r \cup {Append(a, t) : a \in r, t \in ArgTokens}

CliVariants == {"answers", "complete"}

CliInit ==
    /\ \E v \in CliVariants, argv \in ArgvOf(MaxArgs) :
         cli = [pc |-> "parse", variant |-> v, argv |-> argv,
                parsed |-> Parsed("none", FALSE, "", "", ""),
                a |-> Nan, b |-> Nan, stdout |-> <<>>, stderr |-> <<>>,
                outcome |-> "", code |-> <<>>]
    /\ PkgOff /\ SegOff /\ TlOff /\ SkOff /\ LgOff /\ TsOff /\ DvOff

\* main returns code after outcome
CliReturn(st, outcome, code) == [st EXCEPT !.pc = "done", !.outcome = outcome, !.code = <<code>>]

\* lines 186-190: the arguments parse, logging is set up
CliParseOk ==
    /\ cli.pc = "parse"
    /\ ParseArgs(cli.argv).kind = "ok"
    /\ cli' = [cli EXCEPT !.pc = "validate", !.parsed = ParseArgs(cli.argv)]
    /\ UNCHANGED <<pkgvars, seg, tl, sk, lg, ts, dv>>

\* line 186 and the SystemExit handler: argparse prints the help and exits
CliParseHelp ==
    /\ cli.pc = "parse"
    /\ ParseArgs(cli.argv).kind = "help"
    /\ cli' = CliReturn([cli EXCEPT !.stdout = Append(@, Shown("help", Nan))], "SystemExit",
                        SystemExitCode(cli.variant, cli.argv, 0))
    /\ UNCHANGED <<pkgvars, seg, tl, sk, lg, ts, dv>>

\* line 186 and the SystemExit handler: argparse reports an error and exits
CliParseError ==
    /\ cli.pc = "parse"
    /\ ParseArgs(cli.argv).kind = "error"
    /\ cli' = CliReturn([cli EXCEPT !.stderr = Append(@, "calc: error")], "SystemExit",
                        SystemExitCode(cli.variant, cli.argv, 2))
    /\ UNCHANGED <<pkgvars, seg, tl, sk, lg, ts, dv>>

\* line 186 and the handler of lines 243-247: parse_args raises TypeError
CliParseRaises ==
    /\ cli.pc = "parse"
    /\ ParseArgs(cli.argv).kind = "type_error"
    /\ cli' = CliReturn([cli EXCEPT !.stderr = Append(@, "Internal Error")], "TypeError", 4)
    /\ UNCHANGED <<pkgvars, seg, tl, sk, lg, ts, dv>>

\* lines 193-194: the operands are valid
CliValidateOk ==
    /\ cli.pc = "validate"
    /\ ValidateOperationArgs(cli.parsed.a, cli.parsed.b) # <<>>
    /\ cli' = [cli EXCEPT !.pc = "execute",
                          !.a = ValidateOperationArgs(cli.parsed.a, cli.parsed.b)[1],
                          !.b = ValidateOperationArgs(cli.parsed.a, cli.parsed.b)[2]]
    /\ UNCHANGED <<pkgvars, seg, tl, sk, lg, ts, dv>>

\* lines 193-199: validate_operation_args raises InvalidInputError
CliValidateFails ==
    /\ cli.pc = "validate"
    /\ ValidateOperationArgs(cli.parsed.a, cli.parsed.b) = <<>>
    /\ cli' = CliReturn([cli EXCEPT !.stderr = Append(@, "Input Error")],
                        "InvalidInputError", 1)
    /\ UNCHANGED <<pkgvars, seg, tl, sk, lg, ts, dv>>

\* what execute_operation does with the operands of the run
CliExecuted == ExecuteOperation(cli.parsed.cmd, cli.a, cli.b)

\* lines 202-217: the operation returns, the result is printed
CliResult ==
    /\ cli.pc = "execute"
    /\ CliExecuted.kind = "return"
    /\ cli' = CliReturn([cli EXCEPT !.stdout = Append(@, PrintResult(cli.variant, cli.parsed,
                                                                   CliExecuted.value))],
                        "result", 0)
    /\ UNCHANGED <<pkgvars, seg, tl, sk, lg, ts, dv>>

\* lines 219-225: the operation raises DivisionByZeroError
CliMathError ==
    /\ cli.pc = "execute"
    /\ CliExecuted.kind = "raise"
    /\ CliExecuted.exc = "DivisionByZeroError"
    /\ cli' = CliReturn([cli EXCEPT !.stderr = Append(@, HandlerOf(CliExecuted.exc).msg)],
                        CliExecuted.exc, HandlerOf(CliExecuted.exc).code)
    /\ UNCHANGED <<pkgvars, seg, tl, sk, lg, ts, dv>>

\* lines 227-237: the operation raises another CalculatorError
CliCalcError ==
    /\ cli.pc = "execute"
    /\ CliExecuted.kind = "raise"
    /\ CliExecuted.exc # "DivisionByZeroError"
    /\ cli' = CliReturn([cli EXCEPT !.stderr = Append(@, HandlerOf(CliExecuted.exc).msg)],
                        CliExecuted.exc, HandlerOf(CliExecuted.exc).code)
    /\ UNCHANGED <<pkgvars, seg, tl, sk, lg, ts, dv>>

CliNext ==
    CliParseOk \/ CliParseHelp \/ CliParseError \/ CliParseRaises \/ CliValidateOk
    \/ CliValidateFails \/ CliResult \/ CliMathError \/ CliCalcError

SpecCli == CliInit /\ [][CliNext]_vars

---------------------------------------------------------------------------
(* SpecDivide: one call of divide (operations lines 260-340) on operands   *)
(* of every type a caller can pass.                                        *)

\* values of the parameters a and b
DivideOperands ==
    { Value("int", 0, 0), Value("int", 5, 0), Value("int", 1, 0), Value("float", 0, 0),
      Value("float", 25, 0 - 1), Value("float", 1, 0 - 16), Value("float", 0 - 1, 0 - 16),
      Value("float", 1, 0 - 15), Value("float", 1, 308), Value("bigint", 1, 400),
      Nan, Inf(1), Inf(0 - 1), Value("str", 0, 0) }

DvInit ==
    /\ \E a \in DivideOperands, b \in DivideOperands :
         dv = [pc |-> "call", a |-> a, b |-> b, result |-> Raised("")]
    /\ PkgOff /\ SegOff /\ TlOff /\ SkOff /\ LgOff /\ TsOff /\ CliOff

\* the call is about to leave divide by exit
DvAt(exit) == dv.pc = "call" /\ DivideExit(dv.a, dv.b) = exit

DvDone == [dv EXCEPT !.pc = "done", !.result = divide(dv.a, dv.b)]

\* line 291: _validate_input(a) raises InvalidInputError
DvInvalidA ==
    /\ DvAt("invalid_a")
    /\ ValidateInput(dv.a) = <<"InvalidInputError">>
    /\ dv' = DvDone
    /\ UNCHANGED <<pkgvars, seg, tl, sk, lg, ts, cli>>

\* line 292: _validate_input(b) raises InvalidInputError
DvInvalidB ==
    /\ DvAt("invalid_b")
    /\ ValidateInput(dv.b) = <<"InvalidInputError">>
    /\ dv' = DvDone
    /\ UNCHANGED <<pkgvars, seg, tl, sk, lg, ts, cli>>

\* lines 291-292: math.isnan of _validate_input raises for an int too large
DvValidatorRaises ==
    /\ DvAt("invalid_a") \/ DvAt("invalid_b")
    /\ "builtins.OverflowError" \in {divide(dv.a, dv.b).exc}
    /\ dv' = DvDone
    /\ UNCHANGED <<pkgvars, seg, tl, sk, lg, ts, cli>>

\* lines 295-297
DvZeroDivisor ==
    /\ DvAt("zero_divisor")
    /\ dv' = DvDone
    /\ UNCHANGED <<pkgvars, seg, tl, sk, lg, ts, cli>>

\* lines 300-305
DvSmallDivisor ==
    /\ DvAt("small_divisor")
    /\ dv' = DvDone
    /\ UNCHANGED <<pkgvars, seg, tl, sk, lg, ts, cli>>

\* lines 310-312
DvZeroDividend ==
    /\ DvAt("zero_dividend")
    /\ dv' = DvDone
    /\ UNCHANGED <<pkgvars, seg, tl, sk, lg, ts, cli>>

\* lines 315-322: _check_overflow raises
DvOverflow ==
    /\ DvAt("overflow")
    /\ dv' = DvDone
    /\ UNCHANGED <<pkgvars, seg, tl, sk, lg, ts, cli>>

\* lines 315-340
DvQuotient ==
    /\ DvAt("quotient")
    /\ dv' = DvDone
    /\ UNCHANGED <<pkgvars, seg, tl, sk, lg, ts, cli>>

DvNext ==
    DvInvalidA \/ DvInvalidB \/ DvValidatorRaises \/ DvZeroDivisor \/ DvSmallDivisor
    \/ DvZeroDividend \/ DvOverflow \/ DvQuotient

SpecDivide == DvInit /\ [][DvNext]_vars

---------------------------------------------------------------------------
(* Properties of create_lesson_package (Spec).                             *)

\* text has the line ln
HasLine(text, ln) == \E k \in DOMAIN SplitLines(text) : SplitLines(text)[k] = ln

\* the name between "def " and "(" on the first line of an example
DefName(code) == SubSeq(code, 5, Find(code, "(", 1) - 1)

\* the running call has the arguments of the call completed just before it
SameAsPrev ==
    prev # <<>> /\ prev[1].text = lesson_markdown /\ prev[1].name = name_arg

\* C1: a second call in a row with the same lesson text, destination and lesson
\* name leaves the package tree exactly as the first call left it.
RebuildIdentical ==
    (pc = "done" /\ SameAsPrev) => Tree(fs, Base) = prev[1].snap

RebuiltTwice ==
    /\ pc = "done" /\ SameAsPrev
    /\ Len(created) = 2
    /\ Tree(fs, Base) = prev[1].snap

\* the paths a call with the current topics writes: directories, lesson document,
\* manifest, markers and the four files of every topic
ProducedPaths ==
    {Base, ExamplesDir, StudentDir, TestsDir, SolutionsDir}
    \cup {Base \o <<"README.md">>, ManifestPath}
    \cup {MarkerDirs[d] \o <<"__init__.py">> : d \in 1..Len(MarkerDirs)}
    \cup UNION { { ExamplesDir \o <<ExampleName(SafeTitle(topics[k], k))>>,
                   StudentDir \o <<StudentName(SafeTitle(topics[k], k))>>,
                   SolutionsDir \o <<StudentName(SafeTitle(topics[k], k))>>,
                   TestsDir \o <<TestName(SafeTitle(topics[k], k))>> } : k \in 1..Len(topics) }

\* C2: after a successful call the package holds only what this call produced; the
\* per-topic files of an earlier package that the new lesson does not produce are gone.
FullReplacement ==
    pc = "done" => {q \in DOMAIN fs : Under(q, Base)} = ProducedPaths

ReplacedOlderPackage ==
    /\ pc = "done"
    /\ prev # <<>> /\ prev[1].base = Base /\ prev[1].text # lesson_markdown
    /\ \E q \in DOMAIN prev[1].snap :
         /\ Len(q) = Len(Base) + 2
         /\ q[Len(q)] # "__init__.py"
         /\ q \notin DOMAIN fs

\* every path the manifest at m lists exists
ManifestListed(f, m) ==
    f[m].kind = "file" =>
    \A k \in 1..Len(f[m].data.created) :
        LET e == f[m].data.created[k]
        IN  {e.example, e.student, e.solution, e.test} \subseteq DOMAIN f

\* C3 (as claimed): in every state of a call, a manifest.json present in the package
\* lists only paths that exist.
ManifestNeverDangling ==
    (pc # "idle" /\ ManifestPath \in DOMAIN fs) => ManifestListed(fs, ManifestPath)

\* C3 (amended): once the removal of the pre-existing package is over, the package
\* has no manifest.json until the last write, and the manifest written last lists
\* only paths that exist.
ManifestLastAfterRemoval ==
    /\ pc \in {"mkdir", "readme", "loop", "example", "student", "solution", "test", "markers"}
         => ManifestPath \notin DOMAIN fs
    /\ pc = "done" => ManifestPath \in DOMAIN fs /\ ManifestListed(fs, ManifestPath)

ManifestWrittenOnRebuild ==
    /\ pc = "done"
    /\ prev # <<>> /\ prev[1].base = Base
    /\ Len(fs[ManifestPath].data.created) = 2
    /\ ManifestListed(fs, ManifestPath)

\* C4: a lesson name that is not supplied resolves to at most 40 characters and is
\* never empty.
ResolvedNameNonEmpty ==
    (pc # "idle" /\ ~Truthy(name_arg)) => lesson_name # "" /\ Len(lesson_name) <= 40

\* p is the destination directory or lies in it outside the directory name
OutsidePackage(p, name) == p = <<>> \/ p[1] # name

\* C29: a call creates, overwrites and deletes only paths inside
\* destination/<resolved lesson name>: the destination directory itself and
\* every other file or directory under it are, at every step of the call, as
\* they were when the call was made.
PackageFrame ==
    pc # "idle" =>
      \A p \in DOMAIN fs \cup DOMAIN entry :
         OutsidePackage(p, lesson_name) =>
           p \in DOMAIN fs /\ p \in DOMAIN entry /\ fs[p] = entry[p]

\* the slug of topic number k of the running call
SlugOf(k) == SafeTitle(topics[k], k)

\* the text of the file name in directory dir, "" when there is none
TextAt(dir, name) == ReadSource(fs, dir \o <<name>>)

\* the import statements of a Python text, in order
RECURSIVE ImportsFrom(_, _)
ImportsFrom(lines, k) ==
    IF k > Len(lines) THEN <<>>
    ELSE (IF StartsWith(lines[k], "import ") \/ StartsWith(lines[k], "from ")
          THEN <<lines[k]>> ELSE <<>>) \o ImportsFrom(lines, k + 1)

\* C12: the test file of every Topic imports, besides pytest, only from the module
\* examples.example_<slug> of that Topic, and the name it imports is the function
\* that example file defines.
TestImportsExample ==
    pc = "done" =>
      \A k \in 1..Len(topics) :
         ImportsFrom(SplitLines(TextAt(TestsDir, TestName(SlugOf(k)))), 1)
           = << "import pytest",
                "from examples.example_" \o SlugOf(k) \o " import "
                   \o DefName(TextAt(ExamplesDir, ExampleName(SlugOf(k)))) >>

SharedSlugTestImports ==
    /\ pc = "done"
    /\ Len(topics) = 2
    /\ SlugOf(1) = "a_b" /\ SlugOf(2) = "a_b"
    /\ ExampleFuncName(topics[1]) # ExampleFuncName(topics[2])
    /\ HasLine(TextAt(TestsDir, "test_a_b.py"), "from examples.example_a_b import a_b")

\* C16: after a successful call the manifest names the resolved lesson name and has
\* one entry per Topic of the segmentation of the lesson text, in Topic order, entry
\* k carrying the title of Topic k and the example, student, solution and test paths
\* built from the slug of Topic k.
ManifestPerTopic ==
    pc = "done" =>
      LET T   == split_into_topics(lesson_markdown)
          man == fs[ManifestPath].data
      IN  /\ man.lesson = lesson_name
          /\ lesson_name = ResolveName(lesson_markdown, name_arg)
          /\ Len(man.created) = Len(T)
          /\ \A k \in 1..Len(T) :
               LET slug == SafeTitle(T[k], k)
               IN  man.created[k] =
                     [ topic    |-> T[k].title,
                       example  |-> Base \o <<"examples", "example_" \o slug \o ".py">>,
                       student  |-> Base \o <<"students", "student_" \o slug \o ".py">>,
                       solution |-> Base \o <<"solutions", "student_" \o slug \o ".py">>,
                       test     |-> Base \o <<"tests", "test_" \o slug \o ".py">> ]

ManifestOfTwoTopics ==
    /\ pc = "done"
    /\ lesson_markdown = "# Sum\nadd them\n# Is a\n"
    /\ fs[ManifestPath].data.lesson = "pkg"
    /\ fs[ManifestPath].data.created[1].topic = "Sum"
    /\ fs[ManifestPath].data.created[2].topic = "Is a"
    /\ fs[ManifestPath].data.created[2].solution = <<"pkg", "solutions", "student_is_a.py">>

\* C17: after a successful call, for the slug of every Topic the file
\* solutions/student_<slug>.py has the same text as examples/example_<slug>.py.
SolutionIsExample ==
    pc = "done" =>
      \A k \in 1..Len(topics) :
         /\ SolutionsDir \o <<StudentName(SlugOf(k))>> \in DOMAIN fs
         /\ ExamplesDir \o <<ExampleName(SlugOf(k))>> \in DOMAIN fs
         /\ fs[SolutionsDir \o <<StudentName(SlugOf(k))>>]
              = fs[ExamplesDir \o <<ExampleName(SlugOf(k))>>]

SharedSlugSolution ==
    /\ pc = "done"
    /\ Len(topics) = 2
    /\ SlugOf(1) = SlugOf(2)
    /\ generate_example_code(topics[1]) # generate_example_code(topics[2])
    /\ TextAt(SolutionsDir, StudentName(SlugOf(1))) = generate_example_code(topics[2])
    /\ TextAt(ExamplesDir, ExampleName(SlugOf(1))) = generate_example_code(topics[2])

\* the last Topic, in Topic order, that has the slug of Topic k
LastWithSlug(k) ==
    CHOOSE j \in 1..Len(topics) :
       /\ SlugOf(j) = SlugOf(k)
       /\ \A m \in 1..Len(topics) : SlugOf(m) = SlugOf(k) => m <= j

IsDir(p) == p \in DOMAIN fs /\ fs[p].kind = "dir"

\* the step the call is at has what it needs to run without raising: its Topic, and
\* the directory it writes into
StepCanRun ==
    /\ pc = "readme" => IsDir(Base)
    /\ pc \in {"example", "student", "solution", "test"} => i \in 1..Len(topics)
    /\ pc = "example" => IsDir(ExamplesDir)
    /\ pc = "student" => IsDir(StudentDir)
    /\ pc = "solution" => IsDir(SolutionsDir)
    /\ pc = "test" => IsDir(TestsDir)
    /\ pc = "markers" => \A d \in 1..Len(MarkerDirs) : IsDir(MarkerDirs[d])

\* C18: a lesson in which Topics share a slug is processed to the end like any
\* other, no step lacking what it needs; the example, student, solution and test files of a slug then hold what
\* was generated for the last Topic with that slug, the test being the one made
\* for that Topic's own example, and the manifest has one entry per Topic.
SharedSlugLastWins ==
    /\ StepCanRun
    /\ pc = "done" =>
         /\ Len(fs[ManifestPath].data.created) = Len(topics)
         /\ \A k \in 1..Len(topics) :
              LET code == generate_example_code(topics[LastWithSlug(k)])
              IN  /\ TextAt(ExamplesDir, ExampleName(SlugOf(k))) = code
                  /\ TextAt(StudentDir, StudentName(SlugOf(k))) = generate_student_skeleton(code)
                  /\ TextAt(SolutionsDir, StudentName(SlugOf(k))) = code
                  /\ TextAt(TestsDir, TestName(SlugOf(k)))
                       = generate_test_for_example(
                             "examples.example_" \o SlugOf(k), DefName(code), code)

SharedSlugOverwritten ==
    /\ pc = "done"
    /\ lesson_markdown = "# is_a\n# Is a\n"
    /\ SlugOf(1) = "is_a" /\ SlugOf(2) = "is_a"
    /\ Len(fs[ManifestPath].data.created) = 2
    /\ HasLine(TextAt(ExamplesDir, "example_is_a.py"), "    return x")
    /\ HasLine(TextAt(TestsDir, "test_is_a.py"), "    assert is_a(42) == 42")

---------------------------------------------------------------------------
(* Properties of create_lesson_package on a failing file system (SpecFail). *)

\* the package has a manifest.json that is not the one found when the call was made
ManifestByThisCall ==
    /\ ManifestPath \in DOMAIN fs
    /\ ManifestPath \in DOMAIN entry => fs[ManifestPath] # entry[ManifestPath]

\* C19 (as claimed): once any file-system step of the call has failed, the reading
\* of a file included, the call is over without a return and without a
\* manifest.json of its own.
FailurePropagates ==
    err # {} => (pc = "failed" /\ ~ManifestByThisCall)

\* what holds in every state of a call on a failing file system
FailureOutcome ==
    /\ err \cap {"rmtree", "mkdir", "write"} # {} => pc = "failed"
    /\ pc = "failed" =>
         /\ ManifestByThisCall => fs[ManifestPath] = Partial
         /\ (ManifestPath \in DOMAIN fs /\ fs[ManifestPath] = Partial) => "write" \in err
    /\ (pc = "done" /\ err = {"read"}) =>
         /\ fs[ManifestPath] = File([lesson |-> lesson_name, created |-> created])
         /\ Len(created) = Len(topics)
         /\ \E k \in 1..Len(topics) :
               HasLine(TextAt(TestsDir, TestName(SlugOf(k))),
                       "    assert " \o FuncNameOf(generate_example_code(topics[k]))
                          \o "(42) == 42")

\* C19 (amended): a failure of rmtree, mkdir or write_text ends the call, which then
\* takes no further step and does not return, and leaves no manifest.json of its
\* own other than a file its failed last write left without text; a failure of the
\* reading of the example source does not end the call, which writes the echo test
\* for that Topic and goes on to a complete manifest.
FailureEndsCall ==
    /\ []FailureOutcome
    /\ [][pc = "failed" => (pc' = "failed" /\ fs' = fs /\ calls' = calls)]_vars

FailedAfterTopicFiles ==
    /\ pc = "failed"
    /\ err = {"write"}
    /\ Children(fs, TestsDir) # {}
    /\ Children(fs, SolutionsDir) # {}
    /\ ManifestPath \notin DOMAIN fs

---------------------------------------------------------------------------
(* Properties of segmentation (SpecSeg).                                   *)

SegTopics == seg.st.topics

\* C5: for every input string, the empty one included, _split_into_topics goes
\* through its loop without getting stuck and returns at least one Topic.
SegmentationTotal ==
    /\ seg.pc = "scan" => ENABLED SegNext
    /\ seg.pc = "done" => Len(SegTopics) >= 1

SegEmptyReturned == seg.pc = "done" /\ seg.text = "" /\ Len(SegTopics) = 1

\* the marker lengths n for which s is n '#', whitespace, then text
HeadingMarkers(s) ==
    {n \in 1..6 : /\ n < Len(s)
                  /\ \A j \in 1..n : Ch(s, j) = "#"
                  /\ Ch(s, n + 1) \in SpaceSet
                  /\ Strip(Suffix(s, n + 1)) # ""}

RECURSIVE HeadingTextsFrom(_, _)
\* the heading texts of the heading lines among lines[k..], in input order
HeadingTextsFrom(lines, k) ==
    IF k > Len(lines) THEN <<>>
    ELSE LET s == Strip(lines[k])
             m == HeadingMarkers(s)
         IN  (IF m = {} THEN <<>> ELSE <<Strip(Suffix(s, MinOf(m) + 1))>>)
             \o HeadingTextsFrom(lines, k + 1)

HeadingTexts(lines) == HeadingTextsFrom(lines, 1)

RECURSIVE TitledFrom(_, _)
\* the titles of the topics that were flushed with an open title, in output order
TitledFrom(st, k) ==
    IF k > Len(st.topics) THEN <<>>
    ELSE (IF st.from_heading[k] THEN <<st.topics[k].title>> ELSE <<>>) \o TitledFrom(st, k + 1)

\* C6: every heading line gives exactly one Topic titled with the heading text,
\* and these Topics come out in the order of their heading lines.
HeadingsInOrder ==
    seg.pc = "done" => TitledFrom(seg.st, 1) = HeadingTexts(seg.lines)

SegMixedHeadings ==
    /\ seg.pc = "done"
    /\ Len(HeadingTexts(seg.lines)) >= 2
    /\ \E k \in 1..Len(SegTopics) : ~seg.st.from_heading[k]

\* C20 (as claimed): an input that is empty or all whitespace gives exactly one
\* Topic, titled "Lesson", whose body is the input text itself.
FallbackBodyIsInput ==
    (seg.pc = "done" /\ Strip(seg.text) = "") =>
       SegTopics = <<[title |-> "Lesson", summary |-> seg.text]>>

\* C20 (amended): an input that is empty or all whitespace gives exactly one Topic,
\* titled "Lesson", whose body is the input text with its surrounding whitespace
\* stripped, that is, the empty string.
FallbackBodyStripped ==
    (seg.pc = "done" /\ Strip(seg.text) = "") =>
       /\ SegTopics = <<[title |-> "Lesson", summary |-> Strip(seg.text)]>>
       /\ SegTopics[1].summary = ""

SegBlankLinesOnly ==
    /\ seg.pc = "done"
    /\ seg.text = "\n\n"
    /\ seg.st.from_heading = <<FALSE>>
    /\ SegTopics = <<[title |-> "Lesson", summary |-> ""]>>

\* s is "-", "*" or digits and ".", then whitespace, then text
ListItem(s) ==
    \E n \in 1..(Len(s) - 1) :
       /\ Ch(s, n + 1) \in SpaceSet
       /\ \/ n = 1 /\ Ch(s, 1) \in {"-", "*"}
          \/ n >= 2 /\ Ch(s, n) = "." /\ \A j \in 1..(n - 1) : Ch(s, j) \in DigitSet

NonBlankAt(lines) == {k \in 1..Len(lines) : Strip(lines[k]) # ""}

HeadingsAt(lines) == {k \in 1..Len(lines) : HeadingMarkers(Strip(lines[k])) # {}}

\* the list-item lines that no heading line precedes
ListItemsAt(lines) ==
    {k \in NonBlankAt(lines) : /\ ListItem(Strip(lines[k]))
                               /\ \A h \in HeadingsAt(lines) : k < h}

\* the list-item lines that follow a heading line
ListItemsUnderTitleAt(lines) ==
    {k \in NonBlankAt(lines) : /\ ListItem(Strip(lines[k]))
                               /\ \E h \in HeadingsAt(lines) : h < k}

\* the line a Topic without a heading starts at when the text starts with
\* plain lines
LeadingBodyAt(lines) ==
    IF NonBlankAt(lines) = {} THEN {}
    ELSE {MinOf(NonBlankAt(lines))} \ (HeadingsAt(lines) \cup ListItemsAt(lines))

\* the lines at which a Topic starts
TopicStarts(lines) == HeadingsAt(lines) \cup ListItemsAt(lines) \cup LeadingBodyAt(lines)

RECURSIVE Ascending(_)
\* the elements of a set of numbers, in ascending order
Ascending(S) == IF S = {} THEN <<>> ELSE <<MinOf(S)>> \o Ascending(S \ {MinOf(S)})

\* the last line of the Topic that starts at line s
TopicEnd(lines, s) ==
    LET later == {k \in TopicStarts(lines) : k > s}
    IN  IF later = {} THEN Len(lines) ELSE MinOf(later) - 1

\* the Topic in whose lines line j lies
TopicOfLine(lines, j) ==
    CHOOSE k \in 1..Len(Ascending(TopicStarts(lines))) :
       /\ Ascending(TopicStarts(lines))[k] <= j
       /\ j <= TopicEnd(lines, Ascending(TopicStarts(lines))[k])

\* C25: every list-item line that no heading precedes opens a Topic of its
\* own, titled with that line (without its surrounding whitespace), so that
\* N such lines give N Topics; a list-item line after a heading opens no
\* Topic and is a line of the body of the Topic the heading opened.
ListItemsOpenTopics ==
    (seg.pc = "done" /\ NonBlankAt(seg.lines) # {}) =>
       LET starts == Ascending(TopicStarts(seg.lines))
       IN  /\ Len(SegTopics) = Len(starts)
           /\ \A k \in 1..Len(starts) :
                 starts[k] \in ListItemsAt(seg.lines) =>
                   /\ SegTopics[k].title = Strip(seg.lines[starts[k]])
                   /\ StartsWith(SegTopics[k].summary, SegTopics[k].title)
                   /\ ~seg.st.from_heading[k]
           /\ \A j \in ListItemsUnderTitleAt(seg.lines) :
                 /\ j \notin TopicStarts(seg.lines)
                 /\ seg.st.from_heading[TopicOfLine(seg.lines, j)]
                 /\ Contains(SegTopics[TopicOfLine(seg.lines, j)].summary,
                             Strip(seg.lines[j]))

\* a list item before the heading and one after it
SegListBeforeAndAfterHeading ==
    /\ seg.pc = "done"
    /\ seg.text = "2. two\n# Sum\n- add up\n"
    /\ SegTopics = <<[title |-> "2. two", summary |-> "2. two"],
                     [title |-> "Sum", summary |-> "- add up"]>>

\* the input lines that belong to the Topic starting at line s: for a heading
\* line the lines after it from the first non-blank one on, otherwise the
\* lines from s on, in both cases up to the line before the next Topic
BelongingLines(lines, s) ==
    LET e == TopicEnd(lines, s)
        body == {k \in NonBlankAt(lines) : s < k /\ k <= e}
    IN  IF s \in HeadingsAt(lines)
        THEN IF body = {} THEN <<>> ELSE SubSeq(lines, MinOf(body), e)
        ELSE SubSeq(lines, s, e)

\* the same lines, the list-item line that opens a Topic without its
\* surrounding whitespace
BelongingLinesListStripped(lines, s) ==
    IF s \in ListItemsAt(lines)
    THEN <<Strip(lines[s])>> \o SubSeq(lines, s + 1, TopicEnd(lines, s))
    ELSE BelongingLines(lines, s)

BodiesOf(tps) == [k \in 1..Len(tps) |-> tps[k].summary]

\* the bodies of the Topics of lines, when Body(lines, s) is the body of the
\* Topic that starts at line s; the fallback Topic has no line
ExpectedBodies(lines, Body(_, _)) ==
    LET starts == Ascending(TopicStarts(lines))
    IN  IF starts = <<>> THEN <<"">>
        ELSE [k \in 1..Len(starts) |-> Body(lines, starts[k])]

VerbatimBody(lines, s) == Join("\n", BelongingLines(lines, s))

StrippedBody(lines, s) == Strip(Join("\n", BelongingLinesListStripped(lines, s)))

\* C26 (as claimed): the body of every Topic is the verbatim text of the input
\* lines belonging to it (the non-blank lines after its opening line up to
\* the next Topic, and the blank lines once the body has started), in input
\* order, no character added, removed or altered.
BodyVerbatim ==
    seg.pc = "done" => BodiesOf(SegTopics) = ExpectedBodies(seg.lines, VerbatimBody)

\* C26 (amended): the body of every Topic is the text of the input lines
\* belonging to it, in input order and joined by newlines, where the
\* list-item line that opened the Topic is taken without its surrounding
\* whitespace and the whole body without its leading and trailing
\* whitespace, trailing blank lines included.
BodyStripped ==
    seg.pc = "done" => BodiesOf(SegTopics) = ExpectedBodies(seg.lines, StrippedBody)

\* an indented list item opens the Topic, a blank line ends the text
SegListBodyBlank ==
    /\ seg.pc = "done"
    /\ seg.text = "  * item \nbody text\n\n"
    /\ BodiesOf(SegTopics) = <<"* item\nbody text">>

RECURSIVE InputLinesFrom(_, _)
\* the non-blank lines among lines[k..]: a heading line as its heading text,
\* any other line without its surrounding whitespace
InputLinesFrom(lines, k) ==
    IF k > Len(lines) THEN <<>>
    ELSE LET s == Strip(lines[k])
             m == HeadingMarkers(s)
         IN  (IF s = "" THEN <<>>
              ELSE IF m # {} THEN <<[heading |-> TRUE, text |-> Strip(Suffix(s, MinOf(m) + 1))]>>
              ELSE <<[heading |-> FALSE, text |-> s]>>)
             \o InputLinesFrom(lines, k + 1)

RECURSIVE BodyLinesFrom(_, _)
\* the non-blank lines among lines[k..] of a body
BodyLinesFrom(lines, k) ==
    IF k > Len(lines) THEN <<>>
    ELSE (IF Strip(lines[k]) = "" THEN <<>>
          ELSE <<[heading |-> FALSE, text |-> Strip(lines[k])]>>)
         \o BodyLinesFrom(lines, k + 1)

RECURSIVE TopicLinesFrom(_, _)
\* the Topics k.. read in output order: the heading of a Topic a heading
\* opened, then the lines of its body
TopicLinesFrom(st, k) ==
    IF k > Len(st.topics) THEN <<>>
    ELSE (IF st.from_heading[k] THEN <<[heading |-> TRUE, text |-> st.topics[k].title]>>
          ELSE <<>>)
         \o BodyLinesFrom(SplitLines(st.topics[k].summary), 1)
         \o TopicLinesFrom(st, k + 1)

\* C30: segmentation drops no text: the Topics read in output order, each as
\* its heading (when a heading opened it) and the lines of its body, give
\* every non-blank line of the input once and in input order; and every
\* Topic has a non-empty title.
NoTextDropped ==
    seg.pc = "done" =>
       /\ TopicLinesFrom(seg.st, 1) = InputLinesFrom(seg.lines, 1)
       /\ \A k \in 1..Len(SegTopics) : SegTopics[k].title # ""

\* plain lines, then a heading with an indented list item under it
SegBodyHeadingList ==
    /\ seg.pc = "done"
    /\ seg.text = "body text\n# Sum\n  * item \n"
    /\ Len(SegTopics) = 2
    /\ Len(TopicLinesFrom(seg.st, 1)) = 3

---------------------------------------------------------------------------
(* Properties of the per-topic body (SpecTitle).                           *)

TlGenerated == tl.pc \in {"write", "test", "done"}

\* the rule chain of the classifier, on a lower-cased title
ClaimedCategory(t) ==
    IF Contains(t, "sum") \/ Contains(t, "total") \/ Contains(t, "add") THEN "AGGREGATE"
    ELSE IF Contains(t, "reverse") THEN "REVERSE"
    ELSE IF Contains(t, "validate") \/ Contains(t, "is_") \/ Contains(t, "check") THEN "PREDICATE"
    ELSE "IDENTITY"

\* the category of an example, read from the statement it returns
CodeCategory(code) ==
    LET ls  == SplitLines(code)
        ret == IF Len(ls) >= 3 THEN ls[3] ELSE ""
    IN  CASE ret = "    return sum(numbers)" -> "AGGREGATE"
          [] ret = "    return s[::-1]" -> "REVERSE"
          [] ret = "    return bool(value)" -> "PREDICATE"
          [] ret = "    return x" -> "IDENTITY"
          [] OTHER -> "NONE"

\* C7: the example generated for a title is the one of the first rule, in the order
\* AGGREGATE, REVERSE, PREDICATE, IDENTITY, that its lower-cased title matches.
ClassifierFirstMatch ==
    TlGenerated => CodeCategory(tl.example_code) = ClaimedCategory(Lower(tl.topic.title))

TlAddAndCheck ==
    /\ tl.pc = "done"
    /\ Contains(Lower(tl.topic.title), "add")
    /\ Contains(Lower(tl.topic.title), "check")
    /\ CodeCategory(tl.example_code) = "AGGREGATE"

ValidIdent(s) ==
    /\ s # ""
    /\ \A k \in 1..Len(s) : Ch(s, k) \in LowerSet \cup DigitSet \cup {"_"}
    /\ Ch(s, 1) \notin DigitSet

\* C8: for every title the file slug and the name of the generated function are
\* non-empty, made of lowercase letters, digits and "_", and do not start with a digit.
SlugAndNameValid ==
    tl.pc = "done" => ValidIdent(tl.slug) /\ ValidIdent(DefName(tl.example_code))

TlDigitTitle ==
    /\ tl.pc = "done"
    /\ tl.topic.title # ""
    /\ Ch(tl.topic.title, 1) \in DigitSet
    /\ StartsWith(tl.slug, "t_")
    /\ StartsWith(DefName(tl.example_code), "f_")

\* C9: the function defined in examples/example_<slug>.py is named <slug>.
CallableNamedSlug ==
    tl.pc = "done" => DefName(tl.example_code) = tl.slug

\* C10: an AGGREGATE title gives an example containing "sum(" and a test asserting
\* f([1,2,3]) == 6 and f([]) == 0; a REVERSE title gives a test asserting
\* f('abc') == 'cba' and f('') == ''.
ScenarioAssertions ==
    tl.pc = "done" =>
      LET cat == ClaimedCategory(Lower(tl.topic.title))
          f   == DefName(tl.example_code)
      IN  /\ cat = "AGGREGATE" =>
                /\ Contains(tl.example_code, "sum(")
                /\ HasLine(tl.test_code, "    assert " \o f \o "([1,2,3]) == 6")
                /\ HasLine(tl.test_code, "    assert " \o f \o "([]) == 0")
          /\ cat = "REVERSE" =>
                /\ HasLine(tl.test_code, "    assert " \o f \o "('abc') == 'cba'")
                /\ HasLine(tl.test_code, "    assert " \o f \o "('') == ''")

TlSumOfValues ==
    /\ tl.pc = "done"
    /\ tl.topic.title = "Sum of values"
    /\ HasLine(tl.test_code, "    assert sum_of_values([1,2,3]) == 6")

\* the category whose two assertions the test makes about the function f
AssertedCategory(test_code, f) ==
    CASE HasLine(test_code, "    assert " \o f \o "([1,2,3]) == 6")
           /\ HasLine(test_code, "    assert " \o f \o "([]) == 0") -> "AGGREGATE"
      [] HasLine(test_code, "    assert " \o f \o "('abc') == 'cba'")
           /\ HasLine(test_code, "    assert " \o f \o "('') == ''") -> "REVERSE"
      [] HasLine(test_code, "    assert " \o f \o "(1) is True")
           /\ HasLine(test_code, "    assert " \o f \o "(0) is False") -> "PREDICATE"
      [] HasLine(test_code, "    assert " \o f \o "(42) == 42")
           /\ HasLine(test_code, "    assert " \o f \o "('x') == 'x'") -> "IDENTITY"
      [] OTHER -> "NONE"

\* C11: for every title the two assertions of the generated test are those of the
\* category of the generated example, made about the function the example defines.
TestAgreesWithExample ==
    tl.pc = "done" =>
      AssertedCategory(tl.test_code, DefName(tl.example_code)) = CodeCategory(tl.example_code)

---------------------------------------------------------------------------
(* Properties of the test synthesizer (SpecTest).                          *)

\* the source the call could read: '' when the file is missing or the
\* reading raised
TsSourceRead == IF ts.file # <<>> /\ ~ts.raised THEN ts.file[1] ELSE ""

\* the number of lines of text that start with pat
LinesStarting(text, pat) ==
    Cardinality({k \in 1..Len(SplitLines(text)) : StartsWith(SplitLines(text)[k], pat)})

\* the test imports the callable and has one test function of two assertions
TsOneTestTwoAssertions ==
    /\ HasLine(ts.result[1], "from " \o ts.example_module \o " import " \o ts.func_name)
    /\ LinesStarting(ts.result[1], "from ") = 1
    /\ LinesStarting(ts.result[1], "def ") = 1
    /\ LinesStarting(ts.result[1], "def test_") = 1
    /\ LinesStarting(ts.result[1], "    assert ") = 2

\* the template chosen by the first of "sum(", "[::-1]", "bool(" in src
CallMarkerCategory(src) ==
    IF Contains(src, "sum(") THEN "AGGREGATE"
    ELSE IF Contains(src, "[::-1]") THEN "REVERSE"
    ELSE IF Contains(src, "bool(") THEN "PREDICATE"
    ELSE "IDENTITY"

\* the same with "return sum" and "return bool" as further markers
MarkerCategory(src) ==
    IF Contains(src, "return sum") \/ Contains(src, "sum(") THEN "AGGREGATE"
    ELSE IF Contains(src, "[::-1]") THEN "REVERSE"
    ELSE IF Contains(src, "return bool") \/ Contains(src, "bool(") THEN "PREDICATE"
    ELSE "IDENTITY"

\* C27 (as claimed): the template is that of the first match among: the source
\* contains "sum(" (aggregate), "[::-1]" (reverse), "bool(" (predicate),
\* otherwise, also when no source can be read, echo; and the test is the
\* import of the callable and one test function of two assertions.
TestByCallMarkers ==
    ts.pc = "done" =>
      /\ AssertedCategory(ts.result[1], ts.func_name) = CallMarkerCategory(TsSourceRead)
      /\ TsOneTestTwoAssertions

\* C27 (amended): the template is that of the first match among: the source
\* contains "return sum" or "sum(" (aggregate), "[::-1]" (reverse),
\* "return bool" or "bool(" (predicate), otherwise, also when no source can
\* be read, echo; and the test is the import of the callable and one test
\* function of two assertions.
TestByMarkers ==
    ts.pc = "done" =>
      /\ AssertedCategory(ts.result[1], ts.func_name) = MarkerCategory(TsSourceRead)
      /\ TsOneTestTwoAssertions

\* a source that returns a name starting with sum and calls nothing
TsReturnSummary ==
    /\ ts.pc = "done"
    /\ ts.src = "def f(x):\n    return summary\n"
    /\ AssertedCategory(ts.result[1], ts.func_name) = "AGGREGATE"

---------------------------------------------------------------------------
(* Properties of the skeleton (SpecSkel).                                  *)

\* the source has a line starting with "def "
HasDecl(lines) == \E k \in 1..Len(lines) : StartsWith(lines[k], "def ")

FirstDecl(lines) == MinOf({k \in 1..Len(lines) : StartsWith(lines[k], "def ")})

Indented(ln) == ln # "" /\ Ch(ln, 1) \in {" ", "\t"}

RECURSIVE BodylessFrom(_, _, _)
\* the source from line k on with every callable body replaced by the two
\* placeholder lines; mode is "open" right after a declaration line, "body" inside
\* the indented lines that follow it, "none" elsewhere
BodylessFrom(lines, k, mode) ==
    IF k > Len(lines) THEN <<>>
    ELSE IF StartsWith(lines[k], "def ")
         THEN <<lines[k]>> \o BodylessFrom(lines, k + 1, "open")
    ELSE IF mode = "open"
         THEN <<"    # TODO: implement this function", "    raise NotImplementedError()">>
              \o BodylessFrom(lines, k + 1, IF Indented(lines[k]) THEN "body" ELSE "none")
    ELSE IF mode = "body" /\ Indented(lines[k])
         THEN BodylessFrom(lines, k + 1, "body")
    ELSE <<lines[k]>> \o BodylessFrom(lines, k + 1, "none")

\* the lines of the returned skeleton
SkOut == SplitLines(sk.result[1])

\* C13: for a source with a declaration line the skeleton has, in place of the whole
\* body of the callable, exactly the two placeholder lines: no docstring or return
\* line of the body remains.
SkeletonReplacesBody ==
    (sk.pc = "done" /\ HasDecl(sk.lines)) => SkOut = BodylessFrom(sk.lines, 1, "none")

RECURSIVE DeclsFrom(_, _)
\* the declaration lines among lines[k..], in order
DeclsFrom(lines, k) ==
    IF k > Len(lines) THEN <<>>
    ELSE (IF StartsWith(lines[k], "def ") THEN <<lines[k]>> ELSE <<>>)
         \o DeclsFrom(lines, k + 1)

\* C14: for a source with a declaration line, the skeleton starts with the lines
\* that precede the first declaration, unchanged and in order, followed by that
\* declaration line character for character; every declaration line of the source
\* is in the skeleton unchanged.
SkeletonKeepsDeclaration ==
    (sk.pc = "done" /\ HasDecl(sk.lines)) =>
      LET d == FirstDecl(sk.lines)
      IN  /\ Len(SkOut) >= d
          /\ SubSeq(SkOut, 1, d) = SubSeq(sk.lines, 1, d)
          /\ DeclsFrom(SkOut, 1) = DeclsFrom(sk.lines, 1)

SkLeadingLinesThenDecl ==
    /\ sk.pc = "done"
    /\ Len(sk.lines) = 3
    /\ sk.lines[1] = "x = 1" /\ sk.lines[2] = "def g(s):  " /\ sk.lines[3] = "    return x"
    /\ StartsWith(sk.result[1], "x = 1\ndef g(s):  \n")

\* C15: for a source without a declaration line, empty or not, the skeleton is the
\* single placeholder line and holds none of the input text.
SkeletonPlaceholderWithoutDecl ==
    (sk.pc = "done" /\ ~HasDecl(sk.lines)) => sk.result[1] = "# TODO: implement\n"

---------------------------------------------------------------------------
(* Properties of generate_lesson (SpecLesson).                             *)

RECURSIVE FoundInOrder(_, _, _, _)
\* pats[k..] occur in s from position from on, one after the other without overlap
FoundInOrder(s, pats, k, from) ==
    IF k > Len(pats) THEN TRUE
    ELSE LET at == Find(s, pats[k], from)
         IN  at > 0 /\ FoundInOrder(s, pats, k + 1, at + Len(pats[k]))

\* the heading the lesson for template opens with: "# " and the first
\* non-blank line of the template without its surrounding whitespace
LessonHeading(template) ==
    LET first == FirstNonBlank(SplitLines(template))
    IN  "# " \o (IF first = <<>> THEN "Lesson" ELSE Strip(first[1]))

LessonSections ==
    <<"## Learning Objectives", "## Overview", "## Suggested Activities",
      "## Short Assessment">>

\* the call returned what _local_generate built
LgLocalDone == lg.pc = "done" /\ lg.remote # "returned"

\* C21: on the local path the lesson opens with the heading line "# " +
\* the first non-blank line of the template ("# Lesson" when there is
\* none), followed by the sections Learning Objectives, Overview,
\* Suggested Activities and Short Assessment, in that order.
LocalLessonStructure ==
    LgLocalDone =>
      /\ StartsWith(lg.result[1], LessonHeading(lg.template) \o "\n")
      /\ FoundInOrder(lg.result[1], LessonSections, 1,
                      Len(LessonHeading(lg.template)) + 1)

\* a template whose first line is blank, its lesson built from notes
LessonOfIndentedTemplate ==
    /\ LgLocalDone
    /\ lg.template = "  \nIntroduction to X\n"
    /\ lg.bullets # <<>>

RECURSIVE BulletsFrom(_, _, _)
\* lines 43-59: bullets when the loop of line 44 ends, started at line k
BulletsFrom(bullets, lines, k) ==
    IF k > Len(lines) \/ Len(bullets) >= 3 THEN bullets
    ELSE BulletsFrom(NoteLine(bullets, lines[k]), lines, k + 1)

\* _local_generate(template, notes), lines 24-77
local_generate(template, notes) ==
    LessonText(LessonTitle(template), BulletsFrom(<<>>, SplitLines(Strip(notes)), 1),
               Strip(template))

\* C28: generate_lesson never raises because of the remote path: without a
\* usable OPENAI_API_KEY it does not try the remote path and returns the
\* local lesson for template and notes whatever the model argument, and
\* when the remote path raises it returns that same local lesson.
RemoteFailureFallsBack ==
    lg.pc = "done" =>
      /\ ~lg.raised
      /\ ~Truthy(lg.key) => lg.remote = "none"
      /\ lg.remote # "returned" =>
            lg.result = <<local_generate(lg.template, lg.notes)>>

\* the remote path raised in a call that names a model
RemoteRaisedWithModel ==
    /\ lg.pc = "done"
    /\ lg.remote = "raised"
    /\ lg.model # <<>>
    /\ lg.bullets # <<>>

---------------------------------------------------------------------------
(* Properties of the calculator's main (SpecCli).                          *)

\* the namespace of the run, and what the operation does with its operands
CliArgs == ParseArgs(cli.argv)

\* float(s) fails, or gives NaN or an infinity
BadOperand(s) == ParseFloat(s) = <<>> \/ ParseFloat(s)[1].kind \in {"nan", "inf"}

CliOperands == <<ParseFloat(CliArgs.a)[1], ParseFloat(CliArgs.b)[1]>>

CliOperation == Apply(CliArgs.cmd, CliOperands[1], CliOperands[2])

CliParsedOk == cli.pc = "done" /\ CliArgs.kind = "ok"

CliOperated == CliParsedOk /\ ~BadOperand(CliArgs.a) /\ ~BadOperand(CliArgs.b)

CliRaised(excs) == CliOperated /\ CliOperation.kind = "raise" /\ CliOperation.exc \in excs

ParserExitReturnsZero ==
    cli.pc = "done" /\ CliArgs.kind \in {"help", "error"} => cli.code = <<0>>

---------------------------------------------------------------------------
(* Properties of divide (SpecDivide).                                      *)

\* not a number, NaN or infinite
InvalidOperand(x) == x.kind \in {"str", "nan", "inf"}

\* 0, or of absolute value below 1e-15
NearZero(x) == x.kind \in {"int", "float"} /\ (x.m = 0 \/ Mag(x) < 0 - 15)

\* C24: divide raises InvalidInputError for an invalid operand (not a
\* number, NaN, infinite) whatever the divisor; for valid operands it
\* raises DivisionByZeroError when b is 0 or |b| < 1e-15, a = 0 included,
\* and returns 0.0 for a = 0 and any other b.
DivideContract ==
    dv.pc = "done" =>
      /\ InvalidOperand(dv.a) \/ InvalidOperand(dv.b) =>
           dv.result = Raised("InvalidInputError")
      /\ ~InvalidOperand(dv.a) /\ ~InvalidOperand(dv.b) /\ NearZero(dv.b) =>
           dv.result = Raised("DivisionByZeroError")
      /\ ( /\ ~InvalidOperand(dv.a) /\ ~InvalidOperand(dv.b)
           /\ ~NearZero(dv.b) /\ dv.a.kind \in {"int", "float"} /\ dv.a.m = 0 ) =>
           dv.result = Returned(Value("float", 0, 0))

====
